---- MODULE Spec2Model ----
(***************************************************************************)
(* State-machine model of plotly/basedatatypes.py: the figure root         *)
(* (BaseFigure), its trace and layout property trees (BasePlotlyType and   *)
(* subclasses), the restyle / relayout / update operations, the batch      *)
(* context managers and the change-callback dispatch.                      *)
(*                                                                         *)
(* Python values are tagged records [t, v]; strings are sequences of       *)
(* one-character strings so that key path strings can be parsed the way    *)
(* _str_to_dict_path parses them.                                          *)
(***************************************************************************)
EXTENDS Integers, Sequences, FiniteSets, TLC

\* ------------------------------------------------------------------------
\* Python values
\* ------------------------------------------------------------------------

\* Python None
None == [t |-> "none", v |-> <<>>]

\* The Undefined sentinel: "leave existing value unmodified"
Undefined == [t |-> "undef", v |-> <<>>]

\* A Python str, as its sequence of characters
Str(chars) == [t |-> "str", v |-> chars]

\* A Python number
Num(n) == [t |-> "num", v |-> n]

\* float('nan')
NaN == [t |-> "nan", v |-> <<>>]

\* A Python list or tuple of values
List(elems) == [t |-> "list", v |-> elems]

\* A Python dict: a function from path elements (keys) to values
Dict(f) == [t |-> "dict", v |-> f]

\* A reference to a node of a property tree (a BasePlotlyType instance)
Obj(node) == [t |-> "obj", v |-> node]

EmptyDict == Dict(<<>>)

IsDict(x) == x.t = "dict"

IsList(x) == x.t = "list"

IsStr(x) == x.t = "str"

IsObj(x) == x.t = "obj"

\* ------------------------------------------------------------------------
\* Key paths
\* ------------------------------------------------------------------------

\* A str element of a key path tuple
Name(chars) == [i |-> 0, k |-> "s", s |-> chars]

\* An int element of a key path tuple
Idx(n) == [i |-> n, k |-> "i", s |-> <<>>]

IsIdx(el) == el.k = "i"

IsName(el) == el.k = "s"

DigitChars == {"0", "1", "2", "3", "4", "5", "6", "7", "8", "9"}

DigitVal(c) ==
    CASE c = "0" -> 0 [] c = "1" -> 1 [] c = "2" -> 2 [] c = "3" -> 3
      [] c = "4" -> 4 [] c = "5" -> 5 [] c = "6" -> 6 [] c = "7" -> 7
      [] c = "8" -> 8 [] c = "9" -> 9

\* \d+ : a non-empty run of digits
IsDigits(s) == Len(s) > 0 /\ \A j \in 1..Len(s) : s[j] \in DigitChars

RECURSIVE IntOf(_)
\* int(s) for a string of digits
IntOf(s) ==
    IF s = <<>> THEN 0
    ELSE 10 * IntOf(SubSeq(s, 1, Len(s) - 1)) + DigitVal(s[Len(s)])

RECURSIVE SplitOnPeriod(_)
\* key_path_str.split('.')
SplitOnPeriod(s) ==
    IF \A j \in 1..Len(s) : s[j] # "." THEN <<s>>
    ELSE LET j == CHOOSE j \in 1..Len(s) :
                      s[j] = "." /\ \A m \in 1..(j - 1) : s[m] # "."
         IN  <<SubSeq(s, 1, j - 1)>> \o SplitOnPeriod(SubSeq(s, j + 1, Len(s)))

\* bracket_re.fullmatch(key) for bracket_re = '(.*)\[(\d+)\]': the two groups,
\* or <<>> when the key does not match.  The digit group is the whole run of
\* digits in front of the closing bracket, so there is at most one match.
BracketMatch(key) ==
    LET n == Len(key)
        starts == {j \in 1..(n - 2) :
                      key[j] = "[" /\ IsDigits(SubSeq(key, j + 1, n - 1))}
    IN  IF n >= 3 /\ key[n] = "]" /\ starts # {}
        THEN LET j == CHOOSE j \in starts : TRUE
             IN  <<SubSeq(key, 1, j - 1), SubSeq(key, j + 1, n - 1)>>
        ELSE <<>>

RECURSIVE SplitBrackets(_)
\* key_path2: every key that matches the bracket pattern replaced by its groups
SplitBrackets(keys) ==
    LET Groups(m) == IF m # <<>> THEN m ELSE <<Head(keys)>>
    IN  IF keys = <<>> THEN <<>>
        ELSE Groups(BracketMatch(Head(keys))) \o SplitBrackets(Tail(keys))

\* int(key_path2[i]) when it succeeds, the string itself otherwise
ToPathElement(s) == IF IsDigits(s) THEN Idx(IntOf(s)) ELSE Name(s)

\* BaseFigure._str_to_dict_path on a str argument
_str_to_dict_path(key_path_str) ==
    LET Convert(key_path2) ==
            [j \in 1..Len(key_path2) |-> ToPathElement(key_path2[j])]
    IN  Convert(SplitBrackets(SplitOnPeriod(key_path_str)))

\* BasePlotlyType._vals_equal: element-wise on lists and tuples, key-wise on
\* dicts, == otherwise (no numpy arrays in the model); on tagged values this
\* is structural equality, except that float('nan') == float('nan') is False
_vals_equal(v1, v2) ==
    LET RECURSIVE HasNaN(_)
        HasNaN(x) ==
            IF x = NaN THEN TRUE
            ELSE IF IsList(x) THEN \E j \in 1..Len(x.v) : HasNaN(x.v[j])
            ELSE IF IsDict(x) THEN \E key \in DOMAIN x.v : HasNaN(x.v[key])
            ELSE FALSE
    IN  v1 = v2 /\ ~HasNaN(v1)

\* ------------------------------------------------------------------------
\* BaseFigure._set_in
\* ------------------------------------------------------------------------

RECURSIVE Nones(_)
Nones(n) == IF n <= 0 THEN <<>> ELSE <<None>> \o Nones(n - 1)

\* while len(val_parent) <= key: val_parent.append(None)
ExtendList(lst, key) ==
    IF Len(lst.v) <= key THEN List(lst.v \o Nones(key + 1 - Len(lst.v)))
    ELSE lst

\* val_parent[key_path_el] : [ok, val, err]
Subscript(val_parent, el) ==
    IF IsDict(val_parent) THEN
        IF el \in DOMAIN val_parent.v
        THEN [ok |-> TRUE, val |-> val_parent.v[el], err |-> "none"]
        ELSE [ok |-> FALSE, val |-> None, err |-> "KeyError"]
    ELSE IF IsList(val_parent) \/ IsStr(val_parent) THEN
        IF IsIdx(el) THEN
            IF el.i < Len(val_parent.v)
            THEN [ok |-> TRUE,
                  val |-> IF IsList(val_parent) THEN val_parent.v[el.i + 1]
                          ELSE Str(<<val_parent.v[el.i + 1]>>),
                  err |-> "none"]
            ELSE [ok |-> FALSE, val |-> None, err |-> "IndexError"]
        ELSE [ok |-> FALSE, val |-> None, err |-> "TypeError"]
    ELSE [ok |-> FALSE, val |-> None, err |-> "TypeError"]

\* Assignment to the final parent dict or list (lines 820-888)
SetLast(val_parent, last_key, v) ==
    LET SetElement(ext) ==
            IF ~_vals_equal(ext.v[last_key.i + 1], v)
            THEN [val |-> List([ext.v EXCEPT ![last_key.i + 1] = v]),
                  changed |-> TRUE, err |-> "none"]
            ELSE [val |-> ext, changed |-> FALSE, err |-> "none"]
    IN
    IF v = Undefined THEN
        [val |-> val_parent, changed |-> FALSE, err |-> "none"]
    ELSE IF v = None THEN
        IF IsDict(val_parent) THEN
            IF last_key \in DOMAIN val_parent.v
            THEN [val |-> Dict([key \in DOMAIN val_parent.v \ {last_key}
                                   |-> val_parent.v[key]]),
                  changed |-> TRUE, err |-> "none"]
            ELSE [val |-> val_parent, changed |-> FALSE, err |-> "none"]
        ELSE IF IsList(val_parent) THEN
            IF IsIdx(last_key) /\ last_key.i < Len(val_parent.v)
            THEN [val |-> List([val_parent.v EXCEPT ![last_key.i + 1] = None]),
                  changed |-> TRUE, err |-> "none"]
            ELSE [val |-> val_parent, changed |-> FALSE, err |-> "none"]
        ELSE [val |-> val_parent, changed |-> FALSE, err |-> "ValueError"]
    ELSE
        IF IsDict(val_parent) THEN
            IF last_key \notin DOMAIN val_parent.v
                  \/ ~_vals_equal(val_parent.v[last_key], v)
            THEN [val |-> Dict([key \in DOMAIN val_parent.v \cup {last_key}
                                   |-> IF key = last_key THEN v
                                       ELSE val_parent.v[key]]),
                  changed |-> TRUE, err |-> "none"]
            ELSE [val |-> val_parent, changed |-> FALSE, err |-> "none"]
        ELSE IF IsList(val_parent) THEN
            IF IsIdx(last_key) THEN SetElement(ExtendList(val_parent, last_key.i))
            ELSE [val |-> val_parent, changed |-> FALSE, err |-> "none"]
        ELSE [val |-> val_parent, changed |-> FALSE, err |-> "ValueError"]

\* val_parent with the value stored under el replaced (the in-place mutation
\* of a nested container seen from the outer one); a str is immutable
Replace(val_parent, el, new) ==
    IF IsDict(val_parent)
    THEN Dict([key \in DOMAIN val_parent.v |->
                  IF key = el THEN new ELSE val_parent.v[key]])
    ELSE IF IsList(val_parent)
    THEN List([val_parent.v EXCEPT ![el.i + 1] = new])
    ELSE val_parent

RECURSIVE SetInPath(_, _, _)
\* The loop over key_path[:-1] (lines 803-818) followed by the assignment,
\* from val_parent on: [val, changed, err], val being val_parent as mutated
SetInPath(val_parent, key_path, v) ==
    LET el == key_path[1]
        Merge(prepared, r) ==
            [val |-> Replace(prepared, el, r.val),
             changed |-> r.changed, err |-> r.err]
        Descend(prepared, sub) ==
            IF ~sub.ok
            THEN [val |-> prepared, changed |-> FALSE, err |-> sub.err]
            ELSE Merge(prepared, SetInPath(sub.val, Tail(key_path), v))
        Step(prepared) == Descend(prepared, Subscript(prepared, el))
    IN  IF Len(key_path) = 1 THEN SetLast(val_parent, key_path[1], v)
        ELSE Step(IF IsList(val_parent) /\ IsIdx(el)
                  THEN ExtendList(val_parent, el.i)
                  ELSE IF IsDict(val_parent) /\ el \notin DOMAIN val_parent.v
                  THEN Dict([key \in DOMAIN val_parent.v \cup {el} |->
                                IF key = el
                                THEN (IF IsIdx(key_path[2]) THEN List(<<>>)
                                      ELSE EmptyDict)
                                ELSE val_parent.v[key]])
                  ELSE val_parent)

\* BaseFigure._set_in(d, key_path_str, v): the dict after the call, the
\* returned val_changed and the exception raised, if any
_set_in(d, key_path_str, v) ==
    SetInPath(d, _str_to_dict_path(key_path_str), v)

\* ------------------------------------------------------------------------
\* Ordered dicts (Python dicts keep insertion order): sequences of [key, val]
\* ------------------------------------------------------------------------

Item(key, val) == [key |-> key, val |-> val]

Keys(od) == [j \in 1..Len(od) |-> od[j].key]

KeySet(od) == {od[j].key : j \in 1..Len(od)}

Has(od, key) == \E j \in 1..Len(od) : od[j].key = key

Get(od, key) == od[CHOOSE j \in 1..Len(od) : od[j].key = key].val

\* od[key] = val
Put(od, key, val) ==
    IF Has(od, key)
    THEN [j \in 1..Len(od) |-> IF od[j].key = key THEN Item(key, val) ELSE od[j]]
    ELSE Append(od, Item(key, val))

\* ------------------------------------------------------------------------
\* Property names and the declared properties (validators) of the node types
\* ------------------------------------------------------------------------

uid == <<"u", "i", "d">>

marker == <<"m", "a", "r", "k", "e", "r">>

color == <<"c", "o", "l", "o", "r">>

title == <<"t", "i", "t", "l", "e">>

xaxis == <<"x", "a", "x", "i", "s">>

range == <<"r", "a", "n", "g", "e">>

Period == <<".">>

\* 'name[n]' for a one-digit index
Bracket(name, digit) == name \o <<"[", digit, "]">>

\* A validator of a simple property (validate_coerce and present keep the
\* value; present shows a list as a tuple)
SimpleValidator == [kind |-> "simple", props |-> <<>>]

\* A CompoundValidator, with the _validators of its data class
CompoundValidator(props) == [kind |-> "compound", props |-> props]

\* _validators of the trace class of the model (one trace type)
TraceValidators ==
    (uid :> SimpleValidator)
        @@ (marker :> CompoundValidator((color :> SimpleValidator)))

\* _validators of the layout class of the model
LayoutValidators ==
    (title :> SimpleValidator)
        @@ (xaxis :> CompoundValidator((range :> SimpleValidator)))

\* The trace objects and layout objects that exist (object identities)
TraceObjs == {"trace_a", "trace_b", "trace_c"}

LayoutObjs == {"layout_1", "layout_2"}

\* A node of a property tree: the root object and the names of the compound
\* properties that lead from it to the node
Node(root, path) == [root |-> root, path |-> path]

RECURSIVE ValidatorsAt(_, _)
ValidatorsAt(validators, path) ==
    IF path = <<>> THEN validators
    ELSE ValidatorsAt(validators[Head(path)].props, Tail(path))

\* node._validators
_validators(node) ==
    ValidatorsAt(IF node.root \in TraceObjs THEN TraceValidators
                 ELSE LayoutValidators, node.path)

\* node._compound_props: the names of the compound properties; each holds the
\* child node created with its parent
_compound_props(node) ==
    {name \in DOMAIN _validators(node) :
        _validators(node)[name].kind = "compound"}

ParentNode(node) == Node(node.root, SubSeq(node.path, 1, Len(node.path) - 1))

plotly_name(node) == node.path[Len(node.path)]

\* ------------------------------------------------------------------------
\* The figure and the backing state of its nodes
\* ------------------------------------------------------------------------

\* BaseFigure._index_is: index of the first element that is val, -1 for the
\* ValueError raised when there is none
_index_is(iterable, val) ==
    IF \E j \in 1..Len(iterable) : iterable[j] = val
    THEN (CHOOSE j \in 1..Len(iterable) :
              iterable[j] = val /\ \A m \in 1..(j - 1) : iterable[m] # val) - 1
    ELSE -1

\* BaseFigure._get_child_props (None for an unrecognized child)
Figure_get_child_props(f, child) ==
    LET Slot(trace_index) ==
            IF trace_index >= 0 THEN f.data[trace_index + 1]
            ELSE IF child = f.layout_obj THEN f.layout
            ELSE None
    IN  Slot(_index_is(f.data_objs, child))

\* BaseFigure._get_child_prop_defaults
Figure_get_child_prop_defaults(f, child) ==
    LET Slot(trace_index) ==
            IF trace_index >= 0 THEN f.data_defaults[trace_index + 1]
            ELSE IF child = f.layout_obj THEN f.layout_defaults
            ELSE None
    IN  Slot(_index_is(f.data_objs, child))

RECURSIVE _props(_, _)
\* BasePlotlyType._props with BasePlotlyType._get_child_props: the orphan dict
\* of a root without parent, otherwise the slot of the node in its parent's
\* dict, None while uninitialized
_props(f, node) ==
    LET Slot(pp, key) ==
            IF pp = None THEN None
            ELSE IF IsDict(pp) /\ key \in DOMAIN pp.v THEN pp.v[key]
            ELSE None
    IN  IF node.path = <<>> THEN
            IF f.parent[node.root] = "none" THEN f.orphan_props[node.root]
            ELSE Figure_get_child_props(f, node.root)
        ELSE Slot(_props(f, ParentNode(node)), Name(plotly_name(node)))

RECURSIVE _prop_defaults(_, _)
\* BasePlotlyType._prop_defaults with _get_child_prop_defaults
_prop_defaults(f, node) ==
    LET Slot(pd, key) ==
            IF pd = None THEN None
            ELSE IF IsDict(pd) /\ key \in DOMAIN pd.v THEN pd.v[key]
            ELSE None
    IN  IF node.path = <<>> THEN
            IF f.parent[node.root] = "none" THEN None
            ELSE Figure_get_child_prop_defaults(f, node.root)
        ELSE Slot(_prop_defaults(f, ParentNode(node)), Name(plotly_name(node)))

\* The figure with the backing dict of a root object replaced
WithRootProps(f, root, d) ==
    LET Store(trace_index) ==
            IF trace_index >= 0
            THEN [f EXCEPT !.data[trace_index + 1] = d]
            ELSE [f EXCEPT !.layout = d]
    IN  IF f.parent[root] = "none"
        THEN [f EXCEPT !.orphan_props[root] = d]
        ELSE Store(_index_is(f.data_objs, root))

RECURSIVE UpdateAt(_, _, _)
\* The dict d with the dict found by following path replaced by new
UpdateAt(d, path, new) ==
    IF path = <<>> THEN new
    ELSE LET key == Name(Head(path))
         IN  Dict([k \in DOMAIN d.v |->
                      IF k = key THEN UpdateAt(d.v[k], Tail(path), new)
                      ELSE d.v[k]])

\* The figure with the backing dict of an initialized node replaced
WithProps(f, node, new) ==
    WithRootProps(f, node.root,
                  UpdateAt(_props(f, Node(node.root, <<>>)), node.path, new))

RECURSIVE _init_props(_, _)
\* BasePlotlyType._init_props with _init_child_props: when the node has no
\* backing dict, its parent is initialized and given an empty dict under the
\* node's name (BaseFigure._init_child_props does nothing)
_init_props(f, node) ==
    LET Create(f1, pp, key) ==
            IF key \notin DOMAIN pp.v
            THEN WithProps(f1, ParentNode(node),
                           Dict([k \in DOMAIN pp.v \cup {key} |->
                                    IF k = key THEN EmptyDict ELSE pp.v[k]]))
            ELSE f1
        InitChild(f1) ==
            Create(f1, _props(f1, ParentNode(node)), Name(plotly_name(node)))
    IN  IF _props(f, node) # None THEN f
        ELSE IF node.path = <<>> THEN f
        ELSE InitChild(_init_props(f, ParentNode(node)))

\* ------------------------------------------------------------------------
\* Reading nodes: __getitem__, __contains__, _is_key_path_compatible
\* ------------------------------------------------------------------------

\* An exception raised while evaluating an expression
Raised(kind) == [t |-> "raised", v |-> kind]

IsRaised(x) == x.t = "raised"

\* BaseLayoutType._subplotid_prop_names
_subplotid_prop_names ==
    {xaxis, <<"y", "a", "x", "i", "s">>, <<"g", "e", "o">>,
     <<"t", "e", "r", "n", "a", "r", "y">>, <<"s", "c", "e", "n", "e">>}

\* _subplotid_prop_re.fullmatch(prop): <<subplot_prop, digits>> or <<>>
SubplotMatch(prop) ==
    LET Pick(bases) ==
            IF bases = {} THEN <<>>
            ELSE LET b == CHOOSE b \in bases : TRUE
                 IN  <<b, SubSeq(prop, Len(b) + 1, Len(prop))>>
    IN  Pick({b \in _subplotid_prop_names :
                 /\ Len(prop) > Len(b)
                 /\ SubSeq(prop, 1, Len(b)) = b
                 /\ IsDigits(SubSeq(prop, Len(b) + 1, Len(prop)))})

\* BaseLayoutType._strip_subplot_suffix_of_1 on a path tuple; the stripped
\* name is a str, which the caller parses again
_strip_subplot_suffix_of_1(prop_tuple) ==
    LET Strip(prop, match) ==
            IF match # <<>> /\ IntOf(match[2]) = 1 THEN match[1] ELSE prop
    IN  IF Len(prop_tuple) # 1 \/ ~IsName(prop_tuple[1]) THEN prop_tuple
        ELSE _str_to_dict_path(Strip(prop_tuple[1].s,
                                     SubplotMatch(prop_tuple[1].s)))

\* validator.present(v)
present(v) == v

RECURSIVE __getitem__(_, _, _)
RECURSIVE GetPath(_, _, _)
\* BasePlotlyType.__getitem__ (BaseLayoutType.__getitem__ on a layout object)
\* for a path tuple: a value, Obj(child) for a compound property, or Raised
__getitem__(f, node, prop_tuple) ==
    LET Lookup(props, defaults, key) ==
            IF props # None /\ IsDict(props) /\ key \in DOMAIN props.v
            THEN present(props.v[key])
            ELSE IF defaults # None /\ key \in DOMAIN defaults.v
            THEN present(defaults.v[key])
            ELSE None
        Fetch(prop) ==
            IF Len(prop) = 1 THEN
                IF IsIdx(prop[1]) \/ prop[1].s \notin DOMAIN _validators(node)
                THEN Raised("KeyError")
                ELSE IF prop[1].s \in _compound_props(node)
                THEN Obj(Node(node.root, Append(node.path, prop[1].s)))
                ELSE Lookup(_props(f, node), _prop_defaults(f, node), prop[1])
            ELSE GetPath(f, Obj(node), prop)
    IN  Fetch(IF node.root \in LayoutObjs /\ node.path = <<>>
              THEN _strip_subplot_suffix_of_1(prop_tuple)
              ELSE prop_tuple)

\* res = self; for p in prop: res = res[p]
GetPath(f, res, prop) ==
    LET p == Head(prop)
        Continue(next) ==
            IF IsRaised(next) THEN next ELSE GetPath(f, next, Tail(prop))
    IN  IF prop = <<>> THEN res
        ELSE Continue(IF IsObj(res) THEN
                          IF IsName(p)
                          THEN __getitem__(f, res.v, _str_to_dict_path(p.s))
                          ELSE Raised("AttributeError")
                      ELSE IF IsList(res) \/ IsStr(res) THEN
                          IF ~IsIdx(p) THEN Raised("TypeError")
                          ELSE IF p.i >= Len(res.v) THEN Raised("IndexError")
                          ELSE IF IsList(res) THEN res.v[p.i + 1]
                          ELSE Str(<<res.v[p.i + 1]>>)
                      ELSE Raised("TypeError"))

RECURSIVE ContainsFrom(_, _, _)
\* The loop of BasePlotlyType.__contains__ from obj on: "True", "False" or
\* the exception raised
ContainsFrom(f, obj, prop_tuple) ==
    LET p == Head(prop_tuple)
        Continue(next) ==
            IF IsRaised(next) THEN next.v
            ELSE ContainsFrom(f, next, Tail(prop_tuple))
    IN  IF prop_tuple = <<>> THEN "True"
        ELSE IF IsIdx(p) THEN
            IF IsList(obj) /\ p.i < Len(obj.v)
            THEN ContainsFrom(f, obj.v[p.i + 1], Tail(prop_tuple))
            ELSE "False"
        ELSE IF ~IsObj(obj) THEN "AttributeError"
        ELSE IF p.s \in DOMAIN _validators(obj.v)
        THEN Continue(__getitem__(f, obj.v, _str_to_dict_path(p.s)))
        ELSE "False"

\* BasePlotlyType.__contains__ (BaseLayoutType.__contains__ on a layout)
__contains__(f, node, prop_tuple) ==
    ContainsFrom(f, Obj(node),
                 IF node.root \in LayoutObjs /\ node.path = <<>>
                 THEN _strip_subplot_suffix_of_1(prop_tuple)
                 ELSE prop_tuple)

\* BaseFigure._is_key_path_compatible: "True", "False" or the exception
_is_key_path_compatible(f, key_path_str, plotly_obj) ==
    LET Check(key_path_tuple) ==
            __contains__(f, Node(plotly_obj, <<>>),
                         IF IsIdx(key_path_tuple[Len(key_path_tuple)])
                         THEN SubSeq(key_path_tuple, 1, Len(key_path_tuple) - 1)
                         ELSE key_path_tuple)
    IN  Check(_str_to_dict_path(key_path_str))

\* ------------------------------------------------------------------------
\* Change callbacks
\* ------------------------------------------------------------------------

RECURSIVE PlanPathChildrenOnly(_, _, _)
\* PlanPath adding only the next key under each prefix
PlanPathChildrenOnly(dispatch_plan, key_path, n) ==
    LET Add(key_path_so_far, keys_left) ==
            Put(dispatch_plan, key_path_so_far,
                (IF Has(dispatch_plan, key_path_so_far)
                 THEN Get(dispatch_plan, key_path_so_far) ELSE {})
                    \cup {SubSeq(keys_left, 1, 1)})
    IN  IF n >= Len(key_path) THEN dispatch_plan
        ELSE PlanPathChildrenOnly(Add(SubSeq(key_path, 1, n),
                                      SubSeq(key_path, n + 1, Len(key_path))),
                                  key_path, n + 1)

RECURSIVE PlanPath(_, _, _)
\* The loop "for next_key in key_path" of _build_dispatch_plan, at position n
PlanPath(dispatch_plan, key_path, n) ==
    LET Add(key_path_so_far, keys_left) ==
            Put(dispatch_plan, key_path_so_far,
                (IF Has(dispatch_plan, key_path_so_far)
                 THEN Get(dispatch_plan, key_path_so_far) ELSE {})
                    \cup {SubSeq(keys_left, 1, j) : j \in 1..Len(keys_left)})
    IN  IF n >= Len(key_path) THEN dispatch_plan
        ELSE PlanPath(Add(SubSeq(key_path, 1, n),
                          SubSeq(key_path, n + 1, Len(key_path))),
                      key_path, n + 1)

RECURSIVE PlanKeys(_, _)
PlanKeys(dispatch_plan, key_path_strs) ==
    IF key_path_strs = <<>> THEN dispatch_plan
    ELSE PlanKeys(PlanPath(dispatch_plan,
                           _str_to_dict_path(Head(key_path_strs)), 0),
                  Tail(key_path_strs))

\* BaseFigure._build_dispatch_plan: ordered dict from path prefixes to the
\* sets of path tuples touched beneath them
_build_dispatch_plan(key_path_strs) == PlanKeys(<<>>, key_path_strs)

\* An exception that ends a dispatch pass
RaiseEvent(kind) == [ev |-> "raise", kind |-> kind]

EndsRaised(events) == events # <<>> /\ events[Len(events)].ev = "raise"

\* The invocation of a change callback
CallbackEvent(node, callback, callback_args) ==
    [ev |-> "callback", node |-> node, callback |-> callback,
     args |-> callback_args]

\* node._change_callbacks: ordered dict from tuples of path tuples to lists
\* of callbacks
_change_callbacks(f, node) ==
    IF node \in DOMAIN f.change_callbacks THEN f.change_callbacks[node]
    ELSE <<>>

RECURSIVE DispatchRegistrations(_, _, _, _)
\* BasePlotlyType._dispatch_change_callbacks: the callback invocations, in
\* order, for the registrations from position n on
DispatchRegistrations(f, node, changed_paths, n) ==
    LET Calls(callbacks, callback_args) ==
            [j \in 1..Len(callbacks) |->
                CallbackEvent(node, callbacks[j], callback_args)]
        Registration(prop_path_tuples, callbacks) ==
            IF changed_paths \cap
                   {prop_path_tuples[j] : j \in 1..Len(prop_path_tuples)} # {}
            THEN Calls(callbacks,
                       [j \in 1..Len(prop_path_tuples) |->
                           __getitem__(f, node, prop_path_tuples[j])])
            ELSE <<>>
        From(regs) ==
            IF n > Len(regs) THEN <<>>
            ELSE Registration(regs[n].key, regs[n].val)
                     \o DispatchRegistrations(f, node, changed_paths, n + 1)
    IN  From(_change_callbacks(f, node))

_dispatch_change_callbacks(f, node, changed_paths) ==
    DispatchRegistrations(f, node, changed_paths, 1)

RECURSIVE DispatchLayoutPlan(_, _)
\* BaseFigure._dispatch_layout_change_callbacks, given the dispatch plan
DispatchLayoutPlan(f, dispatch_plan) ==
    LET Dispatch(dispatch_obj) ==
            IF IsRaised(dispatch_obj) THEN <<RaiseEvent(dispatch_obj.v)>>
            ELSE (IF IsObj(dispatch_obj)
                  THEN _dispatch_change_callbacks(f, dispatch_obj.v,
                                                  Head(dispatch_plan).val)
                  ELSE <<>>)
                     \o DispatchLayoutPlan(f, Tail(dispatch_plan))
    IN  IF dispatch_plan = <<>> THEN <<>>
        ELSE Dispatch(__getitem__(f, Node(f.layout_obj, <<>>),
                                  Head(dispatch_plan).key))

_dispatch_layout_change_callbacks(f, relayout_data) ==
    DispatchLayoutPlan(f, _build_dispatch_plan(Keys(relayout_data)))

RECURSIVE DispatchTraces(_, _, _, _)
\* The inner loop "for trace_ind in trace_indexes"
DispatchTraces(f, path_tuple, changed_paths, trace_indexes) ==
    LET Dispatch(dispatch_obj) ==
            IF IsRaised(dispatch_obj) THEN <<RaiseEvent(dispatch_obj.v)>>
            ELSE (IF IsObj(dispatch_obj)
                  THEN _dispatch_change_callbacks(f, dispatch_obj.v,
                                                  changed_paths)
                  ELSE <<>>)
                     \o DispatchTraces(f, path_tuple, changed_paths,
                                       Tail(trace_indexes))
    IN  IF trace_indexes = <<>> THEN <<>>
        ELSE Dispatch(__getitem__(f, Node(f.data_objs[Head(trace_indexes) + 1],
                                          <<>>),
                                  path_tuple))

RECURSIVE DispatchTracePlan(_, _, _)
DispatchTracePlan(f, dispatch_plan, trace_indexes) ==
    LET Then(first) ==
            IF EndsRaised(first) THEN first
            ELSE first \o DispatchTracePlan(f, Tail(dispatch_plan),
                                            trace_indexes)
    IN  IF dispatch_plan = <<>> THEN <<>>
        ELSE Then(DispatchTraces(f, Head(dispatch_plan).key,
                                 Head(dispatch_plan).val, trace_indexes))

\* BaseFigure._dispatch_trace_change_callbacks
_dispatch_trace_change_callbacks(f, restyle_data, trace_indexes) ==
    DispatchTracePlan(f, _build_dispatch_plan(Keys(restyle_data)),
                      trace_indexes)

\* ------------------------------------------------------------------------
\* Messages to the front end and exceptions
\* ------------------------------------------------------------------------

\* The figure after a call of a _send_*_msg method
Send(f, msg) == [f EXCEPT !.log = Append(@, msg)]

\* The figure after a dispatch pass: the callbacks invoked, and the exception
\* that ended the pass, if any
Dispatched(f, events) ==
    IF EndsRaised(events)
    THEN [f EXCEPT !.log = @ \o SubSeq(events, 1, Len(events) - 1),
                   !.err = events[Len(events)].kind]
    ELSE [f EXCEPT !.log = @ \o events]

\* The figure after an exception was raised
Raise(f, kind) == [f EXCEPT !.err = kind]

Failed(f) == f.err # "none"

\* A list of ints as a Python value
PyList(ints) == List([j \in 1..Len(ints) |-> Num(ints[j])])

_send_restyle_msg(f, style, trace_indexes) ==
    Send(f, [ev |-> "restyle", restyle_data |-> style,
             trace_indexes |-> trace_indexes])

_send_relayout_msg(f, layout) ==
    Send(f, [ev |-> "relayout", relayout_data |-> layout])

_send_update_msg(f, restyle_data, relayout_data, trace_indexes) ==
    Send(f, [ev |-> "update", restyle_data |-> restyle_data,
             relayout_data |-> relayout_data,
             trace_indexes |-> trace_indexes])

_send_animate_msg(f, styles_data, relayout_data, trace_indexes, animation_opts) ==
    Send(f, [ev |-> "animate", styles_data |-> styles_data,
             relayout_data |-> relayout_data,
             trace_indexes |-> trace_indexes,
             animation_opts |-> animation_opts])

_send_addTraces_msg(f, new_traces_data) ==
    Send(f, [ev |-> "addTraces", new_traces_data |-> new_traces_data])

_send_deleteTraces_msg(f, delete_inds) ==
    Send(f, [ev |-> "deleteTraces", delete_inds |-> delete_inds])

_send_moveTraces_msg(f, current_inds, new_inds) ==
    Send(f, [ev |-> "moveTraces", current_inds |-> current_inds,
             new_inds |-> new_inds])

\* ------------------------------------------------------------------------
\* Restyle, relayout, update
\* ------------------------------------------------------------------------

\* BaseFigure._normalize_trace_indexes: None, an int or a list of ints
_normalize_trace_indexes(f, trace_indexes) ==
    IF trace_indexes = None THEN [j \in 1..Len(f.data_objs) |-> j - 1]
    ELSE IF ~IsList(trace_indexes) THEN <<trace_indexes.v>>
    ELSE [j \in 1..Len(trace_indexes.v) |-> trace_indexes.v[j].v]

RECURSIVE RestyleTraces(_, _, _, _, _, _)
\* The loop of _perform_plotly_restyle with the list value indexed by the
\* trace index instead of the position in trace_indexes
RestyleTraces_by_trace_index(f, key_path_str, v, trace_indexes, i, any_vals_changed) ==
    LET Result(f2) == [f |-> f2, any_vals_changed |-> any_vals_changed]
        Stored(f1, r) ==
            IF r.err # "none" THEN Result(Raise(f1, r.err))
            ELSE RestyleTraces(f1, key_path_str, v, trace_indexes, i + 1,
                               any_vals_changed \/ r.changed)
        Store(trace_ind, r) ==
            Stored([f EXCEPT !.data[trace_ind + 1] = r.val], r)
        Assign(trace_ind, trace_v, compatible) ==
            IF compatible = "False"
            THEN Result(Raise(f, "ValueError: Invalid property path"))
            ELSE IF compatible # "True" THEN Result(Raise(f, compatible))
            ELSE Store(trace_ind,
                       _set_in(f.data[trace_ind + 1], key_path_str, trace_v))
        Trace(trace_ind, trace_v) ==
            IF trace_v = Undefined
            THEN RestyleTraces(f, key_path_str, v, trace_indexes, i + 1,
                               any_vals_changed)
            ELSE Assign(trace_ind, trace_v,
                        _is_key_path_compatible(f, key_path_str,
                                                f.data_objs[trace_ind + 1]))
    IN  IF i >= Len(trace_indexes) THEN Result(f)
        ELSE IF trace_indexes[i + 1] >= Len(f.data)
        THEN Result(Raise(f, "ValueError: Trace index out of range"))
        ELSE IF IsList(v) /\ Len(v.v) = 0
        THEN Result(Raise(f, "ZeroDivisionError"))
        ELSE Trace(trace_indexes[i + 1],
                   IF IsList(v)
                   THEN v.v[(trace_indexes[i + 1] % Len(v.v)) + 1] ELSE v)

\* The loop "for i, trace_ind in enumerate(trace_indexes)" of
\* _perform_plotly_restyle from position i on: [f, any_vals_changed]
RestyleTraces(f, key_path_str, v, trace_indexes, i, any_vals_changed) ==
    LET Result(f2) == [f |-> f2, any_vals_changed |-> any_vals_changed]
        Stored(f1, r) ==
            IF r.err # "none" THEN Result(Raise(f1, r.err))
            ELSE RestyleTraces(f1, key_path_str, v, trace_indexes, i + 1,
                               any_vals_changed \/ r.changed)
        Store(trace_ind, r) ==
            Stored([f EXCEPT !.data[trace_ind + 1] = r.val], r)
        Assign(trace_ind, trace_v, compatible) ==
            IF compatible = "False"
            THEN Result(Raise(f, "ValueError: Invalid property path"))
            ELSE IF compatible # "True" THEN Result(Raise(f, compatible))
            ELSE Store(trace_ind,
                       _set_in(f.data[trace_ind + 1], key_path_str, trace_v))
        Trace(trace_ind, trace_v) ==
            IF trace_v = Undefined
            THEN RestyleTraces(f, key_path_str, v, trace_indexes, i + 1,
                               any_vals_changed)
            ELSE Assign(trace_ind, trace_v,
                        _is_key_path_compatible(f, key_path_str,
                                                f.data_objs[trace_ind + 1]))
    IN  IF i >= Len(trace_indexes) THEN Result(f)
        ELSE IF trace_indexes[i + 1] >= Len(f.data)
        THEN Result(Raise(f, "ValueError: Trace index out of range"))
        ELSE IF IsList(v) /\ Len(v.v) = 0
        THEN Result(Raise(f, "ZeroDivisionError"))
        ELSE Trace(trace_indexes[i + 1],
                   IF IsList(v) THEN v.v[(i % Len(v.v)) + 1] ELSE v)

RECURSIVE RestyleKeys(_, _, _, _, _)
\* The loop "for key_path_str, v in restyle_data.items()" from item n on:
\* [f, restyle_changes]
RestyleKeys(f, restyle_data, trace_indexes, n, restyle_changes) ==
    LET Key(r) ==
            IF Failed(r.f)
            THEN [f |-> r.f, restyle_changes |-> restyle_changes]
            ELSE RestyleKeys(r.f, restyle_data, trace_indexes, n + 1,
                             IF r.any_vals_changed
                             THEN Put(restyle_changes, restyle_data[n].key,
                                      restyle_data[n].val)
                             ELSE restyle_changes)
    IN  IF n > Len(restyle_data)
        THEN [f |-> f, restyle_changes |-> restyle_changes]
        ELSE Key(RestyleTraces(f, restyle_data[n].key, restyle_data[n].val,
                               trace_indexes, 0, FALSE))

\* _perform_plotly_restyle that restores the trace state when a key fails
_perform_plotly_restyle_all_or_nothing(f, restyle_data, trace_indexes) ==
    LET Restored(r) ==
            IF Failed(r.f)
            THEN [f |-> Raise(f, r.f.err), restyle_changes |-> <<>>]
            ELSE r
    IN  Restored(RestyleKeys(f, restyle_data, trace_indexes, 1, <<>>))

\* BaseFigure._perform_plotly_restyle: [f, restyle_changes]
_perform_plotly_restyle(f, restyle_data, trace_indexes) ==
    RestyleKeys(f, restyle_data, trace_indexes, 1, <<>>)

\* BaseFigure.plotly_restyle
plotly_restyle(f, restyle_data, trace_indexes_arg) ==
    LET Notify(f1, restyle_changes, trace_indexes) ==
            Dispatched(f1, _dispatch_trace_change_callbacks(
                               f1, restyle_changes, trace_indexes))
        Finish(r, trace_indexes) ==
            IF Failed(r.f) THEN r.f
            ELSE IF r.restyle_changes # <<>>
            THEN Notify(_send_restyle_msg(r.f, r.restyle_changes,
                                          PyList(trace_indexes)),
                        r.restyle_changes, trace_indexes)
            ELSE r.f
        Restyle(trace_indexes) ==
            Finish(_perform_plotly_restyle(f, restyle_data, trace_indexes),
                   trace_indexes)
    IN  Restyle(_normalize_trace_indexes(f, trace_indexes_arg))

RECURSIVE RelayoutKeys(_, _, _, _)
\* The loop of _perform_plotly_relayout from item n on: [f, relayout_changes]
RelayoutKeys(f, relayout_data, n, relayout_changes) ==
    LET Result(f2) == [f |-> f2, relayout_changes |-> relayout_changes]
        Stored(f1, r, key_path_str, v) ==
            IF r.err # "none" THEN Result(Raise(f1, r.err))
            ELSE RelayoutKeys(f1, relayout_data, n + 1,
                              IF r.changed
                              THEN Put(relayout_changes, key_path_str, v)
                              ELSE relayout_changes)
        Store(r, key_path_str, v) ==
            Stored([f EXCEPT !.layout = r.val], r, key_path_str, v)
        Assign(key_path_str, v, compatible) ==
            IF compatible = "False"
            THEN Result(Raise(f, "ValueError: Invalid property path"))
            ELSE IF compatible # "True" THEN Result(Raise(f, compatible))
            ELSE Store(_set_in(f.layout, key_path_str, v), key_path_str, v)
    IN  IF n > Len(relayout_data) THEN Result(f)
        ELSE Assign(relayout_data[n].key, relayout_data[n].val,
                    _is_key_path_compatible(f, relayout_data[n].key,
                                            f.layout_obj))

\* BaseFigure._perform_plotly_relayout: [f, relayout_changes]
_perform_plotly_relayout(f, relayout_data) ==
    RelayoutKeys(f, relayout_data, 1, <<>>)

\* BaseFigure.plotly_relayout
plotly_relayout(f, relayout_data) ==
    LET Notify(f1, relayout_changes) ==
            Dispatched(f1, _dispatch_layout_change_callbacks(
                               f1, relayout_changes))
        Finish(r) ==
            IF Failed(r.f) THEN r.f
            ELSE IF r.relayout_changes # <<>>
            THEN Notify(_send_relayout_msg(r.f, r.relayout_changes),
                        r.relayout_changes)
            ELSE r.f
    IN  Finish(_perform_plotly_relayout(f, relayout_data))

\* _perform_plotly_update with the trace edits applied before the layout
\* edits
_perform_plotly_update_restyle_first(f, restyle_data, relayout_data, trace_indexes_arg) ==
    LET Laid(r2, r1, trace_indexes) ==
            [f |-> r1.f, restyle_changes |-> r2.restyle_changes,
             relayout_changes |-> r1.relayout_changes,
             trace_indexes |-> trace_indexes]
        Styled(r2, trace_indexes) ==
            IF Failed(r2.f)
            THEN [f |-> r2.f, restyle_changes |-> <<>>,
                  relayout_changes |-> <<>>, trace_indexes |-> trace_indexes]
            ELSE Laid(r2, _perform_plotly_relayout(r2.f, relayout_data),
                      trace_indexes)
        Update(trace_indexes) ==
            Styled(_perform_plotly_restyle(f, restyle_data, trace_indexes),
                   trace_indexes)
    IN  IF restyle_data = <<>> /\ relayout_data = <<>>
        THEN [f |-> f, restyle_changes |-> <<>>, relayout_changes |-> <<>>,
              trace_indexes |-> <<>>]
        ELSE Update(_normalize_trace_indexes(f, trace_indexes_arg))

\* BaseFigure._perform_plotly_update: [f, restyle_changes, relayout_changes,
\* trace_indexes].  A None argument and an empty dict take the same path
\* (both are falsy, and None is replaced by {}), so both are <<>> here; the
\* (None, None, None) of the early exit is (<<>>, <<>>, <<>>).
_perform_plotly_update(f, restyle_data, relayout_data, trace_indexes_arg) ==
    LET Styled(r1, r2, trace_indexes) ==
            [f |-> r2.f, restyle_changes |-> r2.restyle_changes,
             relayout_changes |-> r1.relayout_changes,
             trace_indexes |-> trace_indexes]
        Laid(r1, trace_indexes) ==
            IF Failed(r1.f)
            THEN [f |-> r1.f, restyle_changes |-> <<>>,
                  relayout_changes |-> <<>>, trace_indexes |-> trace_indexes]
            ELSE Styled(r1,
                        _perform_plotly_restyle(r1.f, restyle_data,
                                                trace_indexes),
                        trace_indexes)
    IN  IF restyle_data = <<>> /\ relayout_data = <<>>
        THEN [f |-> f, restyle_changes |-> <<>>, relayout_changes |-> <<>>,
              trace_indexes |-> <<>>]
        ELSE Laid(_perform_plotly_relayout(f, relayout_data),
                  _normalize_trace_indexes(f, trace_indexes_arg))

\* The dispatch of the restyle changes and then of the relayout changes
DispatchChanges(f, restyle_changes, relayout_changes, trace_indexes) ==
    LET Layout(f1) ==
            IF Failed(f1) THEN f1
            ELSE IF relayout_changes # <<>>
            THEN Dispatched(f1, _dispatch_layout_change_callbacks(
                                    f1, relayout_changes))
            ELSE f1
    IN  Layout(IF restyle_changes # <<>>
               THEN Dispatched(f, _dispatch_trace_change_callbacks(
                                      f, restyle_changes, trace_indexes))
               ELSE f)

\* BaseFigure.plotly_update
plotly_update(f, restyle_data, relayout_data, trace_indexes_arg) ==
    LET Finish(r) ==
            IF Failed(r.f) THEN r.f
            ELSE DispatchChanges(
                     IF r.restyle_changes # <<>> \/ r.relayout_changes # <<>>
                     THEN _send_update_msg(r.f, r.restyle_changes,
                                           r.relayout_changes,
                                           PyList(r.trace_indexes))
                     ELSE r.f,
                     r.restyle_changes, r.relayout_changes, r.trace_indexes)
    IN  Finish(_perform_plotly_update(f, restyle_data, relayout_data,
                                      trace_indexes_arg))

\* ------------------------------------------------------------------------
\* Property writes on nodes
\* ------------------------------------------------------------------------

\* BasePlotlyType._in_batch_mode: the parent chain ends at the figure and the
\* figure is in batch mode
_in_batch_mode(f, node) == f.parent[node.root] # "none" /\ f.in_batch_mode

\* _restyle_child without the batch branch: the message is sent and the
\* callbacks are dispatched at once
_restyle_child_unbatched(f, child, key_path_str, val) ==
    LET Notify(f1, restyle, trace_index) ==
            Dispatched(f1, _dispatch_trace_change_callbacks(
                               f1, restyle, <<trace_index>>))
        Restyle(restyle, trace_index) ==
            Notify(_send_restyle_msg(f, restyle, Num(trace_index)),
                   restyle, trace_index)
    IN  Restyle(<<Item(key_path_str, List(<<val>>))>>,
                _index_is(f.data_objs, child))

\* BaseFigure._restyle_child
_restyle_child(f, child, key_path_str, val) ==
    LET Notify(f1, restyle, trace_index) ==
            Dispatched(f1, _dispatch_trace_change_callbacks(
                               f1, restyle, <<trace_index>>))
        Restyle(restyle, trace_index) ==
            IF ~f.in_batch_mode
            THEN Notify(_send_restyle_msg(f, restyle, Num(trace_index)),
                        restyle, trace_index)
            ELSE [f EXCEPT !.batch_trace_edits =
                     Put(@, trace_index,
                         Put(IF Has(f.batch_trace_edits, trace_index)
                             THEN Get(f.batch_trace_edits, trace_index)
                             ELSE <<>>,
                             key_path_str, val))]
    IN  Restyle(<<Item(key_path_str, List(<<val>>))>>,
                _index_is(f.data_objs, child))

\* BaseFigure._relayout_child
_relayout_child(f, child, key_path_str, val) ==
    LET Notify(f1, relayout_msg) ==
            Dispatched(f1, _dispatch_layout_change_callbacks(f1, relayout_msg))
    IN  IF ~f.in_batch_mode
        THEN Notify(_send_relayout_msg(f, <<Item(key_path_str, val)>>),
                    <<Item(key_path_str, val)>>)
        ELSE [f EXCEPT !.batch_layout_edits = Put(@, key_path_str, val)]

RECURSIVE _send_prop_set(_, _, _, _)
\* _send_prop_set of a node: a root tells the figure (when it has one), any
\* other node tells its parent node, whose _restyle_child or _relayout_child
\* is _prop_set_child: the path is prefixed with 'child_name.'
_send_prop_set(f, node, prop_path_str, val) ==
    IF node.path = <<>>
    THEN IF f.parent[node.root] = "none" THEN f
         ELSE IF node.root \in TraceObjs
         THEN _restyle_child(f, node.root, prop_path_str, val)
         ELSE _relayout_child(f, node.root, prop_path_str, val)
    ELSE _send_prop_set(f, ParentNode(node),
                        plotly_name(node) \o Period \o prop_path_str, val)

\* The backing dict d without the key, and with the key set
DictPop(d, key) == Dict([k \in DOMAIN d.v \ {key} |-> d.v[k]])

DictSet(d, key, val) ==
    Dict([k \in DOMAIN d.v \cup {key} |-> IF k = key THEN val ELSE d.v[k]])

\* d1.update(d2)
DictUpdate(d1, d2) ==
    Dict([k \in DOMAIN d1.v \cup DOMAIN d2.v |->
             IF k \in DOMAIN d2.v THEN d2.v[k] ELSE d1.v[k]])

\* _set_prop without the comparison with the stored value
_set_prop_without_comparison(f, node, prop, val) ==
    LET Delete(p) ==
            IF p # None /\ p # EmptyDict /\ Name(prop) \in DOMAIN p.v
            THEN _send_prop_set(
                     IF ~_in_batch_mode(f, node)
                     THEN WithProps(f, node, DictPop(p, Name(prop)))
                     ELSE f,
                     node, prop, val)
            ELSE f
        Assign(f1, p) ==
            _send_prop_set(
                IF ~_in_batch_mode(f1, node)
                THEN WithProps(f1, node, DictSet(p, Name(prop), val))
                ELSE f1,
                node, prop, val)
        Initialized(f1) == Assign(f1, _props(f1, node))
    IN  IF val = Undefined THEN f
        ELSE IF val = None THEN Delete(_props(f, node))
        ELSE Initialized(_init_props(f, node))

\* BasePlotlyType._set_prop for a simple property (validate_coerce keeps the
\* value)
_set_prop(f, node, prop, val) ==
    LET Delete(p) ==
            IF p # None /\ p # EmptyDict /\ Name(prop) \in DOMAIN p.v
            THEN _send_prop_set(
                     IF ~_in_batch_mode(f, node)
                     THEN WithProps(f, node, DictPop(p, Name(prop)))
                     ELSE f,
                     node, prop, val)
            ELSE f
        Assign(f1, p) ==
            IF Name(prop) \notin DOMAIN p.v
               \/ ~_vals_equal(p.v[Name(prop)], val)
            THEN _send_prop_set(
                     IF ~_in_batch_mode(f1, node)
                     THEN WithProps(f1, node, DictSet(p, Name(prop), val))
                     ELSE f1,
                     node, prop, val)
            ELSE f1
        Initialized(f1) == Assign(f1, _props(f1, node))
    IN  IF val = Undefined THEN f
        ELSE IF val = None THEN Delete(_props(f, node))
        ELSE Initialized(_init_props(f, node))

\* BasePlotlyType._raise_on_invalid_property_error(*invalid_props): nothing
\* when there are none, else a ValueError whose message lists them
_raise_on_invalid_property_error(f, invalid_props) ==
    IF invalid_props = <<>> THEN f
    ELSE Send(Raise(f, "ValueError: Invalid property specified"),
              [ev |-> "raise", kind |-> "ValueError: Invalid property specified",
               invalid_props |-> invalid_props])

\* BasePlotlyType.__setitem__ for a path tuple that ends in a simple property
\* (BaseLayoutType.__setitem__ hands these to it unchanged); the write of a
\* compound property is _set_compound_prop, which the model does not have
__setitem__(f, node, prop_tuple, value) ==
    LET prop == prop_tuple[Len(prop_tuple)]
        res == IF Len(prop_tuple) = 1 THEN Obj(node)
               ELSE GetPath(f, Obj(node),
                            SubSeq(prop_tuple, 1, Len(prop_tuple) - 1))
    IN  IF prop_tuple = <<>> THEN Raise(f, "KeyError")
        ELSE IF IsRaised(res) THEN Raise(f, res.v)
        ELSE IF ~IsObj(res) THEN Raise(f, "TypeError")
        ELSE IF IsIdx(prop)
        THEN IF Len(prop_tuple) = 1
             THEN _raise_on_invalid_property_error(f, <<prop.i>>)
             ELSE Raise(f, "AttributeError")
        ELSE IF prop.s \notin DOMAIN _validators(res.v)
        THEN _raise_on_invalid_property_error(f, <<prop.s>>)
        ELSE _set_prop(f, res.v, prop.s, value)

\* ------------------------------------------------------------------------
\* Batch contexts
\* ------------------------------------------------------------------------

\* The characters of the names and paths in ASCII order, for sorted()
Ascii ==
    <<".", "0", "1", "2", "3", "4", "5", "6", "7", "8", "9", "[", "]", "_",
      "a", "b", "c", "d", "e", "f", "g", "h", "i", "j", "k", "l", "m", "n",
      "o", "p", "q", "r", "s", "t", "u", "v", "w", "x", "y", "z">>

CharCode(c) == CHOOSE j \in 1..Len(Ascii) : Ascii[j] = c

RECURSIVE StrLess(_, _)
\* a < b on str
StrLess(a, b) ==
    IF b = <<>> THEN FALSE
    ELSE IF a = <<>> THEN TRUE
    ELSE IF Head(a) # Head(b) THEN CharCode(Head(a)) < CharCode(Head(b))
    ELSE StrLess(Tail(a), Tail(b))

RECURSIVE SortedStrs(_)
\* sorted(set of str)
SortedStrs(S) ==
    IF S = {} THEN <<>>
    ELSE LET m == CHOOSE x \in S : \A y \in S \ {x} : StrLess(x, y)
         IN  <<m>> \o SortedStrs(S \ {m})

RECURSIVE SortedInts(_)
\* sorted(set of int)
SortedInts(S) ==
    IF S = {} THEN <<>>
    ELSE LET m == CHOOSE x \in S : \A y \in S : x <= y
         IN  <<m>> \o SortedInts(S \ {m})

\* _build_update_params_from_batch with None, not Undefined, for the traces
\* that did not write a property
_build_update_params_from_batch_none_filled(f) ==
    LET Filled(trace_style, prop) ==
            IF Has(trace_style, prop) THEN Get(trace_style, prop)
            ELSE None
        Params(batch_style_commands, trace_indexes, all_props) ==
            [restyle_data |->
                [n \in 1..Len(all_props) |->
                    Item(all_props[n],
                         List([j \in 1..Len(trace_indexes) |->
                                  Filled(Get(batch_style_commands,
                                             trace_indexes[j]),
                                         all_props[n])]))],
             relayout_data |-> f.batch_layout_edits,
             trace_indexes |-> PyList(trace_indexes)]
    IN  Params(f.batch_trace_edits,
               SortedInts(KeySet(f.batch_trace_edits)),
               SortedStrs(UNION {KeySet(f.batch_trace_edits[j].val) :
                                    j \in 1..Len(f.batch_trace_edits)}))

\* BaseFigure._build_update_params_from_batch: [restyle_data, relayout_data,
\* trace_indexes]
_build_update_params_from_batch(f) ==
    LET Filled(trace_style, prop) ==
            IF Has(trace_style, prop) THEN Get(trace_style, prop)
            ELSE Undefined
        Params(batch_style_commands, trace_indexes, all_props) ==
            [restyle_data |->
                [n \in 1..Len(all_props) |->
                    Item(all_props[n],
                         List([j \in 1..Len(trace_indexes) |->
                                  Filled(Get(batch_style_commands,
                                             trace_indexes[j]),
                                         all_props[n])]))],
             relayout_data |-> f.batch_layout_edits,
             trace_indexes |-> PyList(trace_indexes)]
    IN  Params(f.batch_trace_edits,
               SortedInts(KeySet(f.batch_trace_edits)),
               SortedStrs(UNION {KeySet(f.batch_trace_edits[j].val) :
                                    j \in 1..Len(f.batch_trace_edits)}))

\* The finally block of batch_update
BatchUpdateFinally(f) ==
    LET Clear(f2) ==
            IF Failed(f2) THEN f2
            ELSE [f2 EXCEPT !.batch_layout_edits = <<>>,
                            !.batch_trace_edits = <<>>]
        Update(f1, params) ==
            Clear(plotly_update(f1, params.restyle_data, params.relayout_data,
                                params.trace_indexes))
        Build(f1) == Update(f1, _build_update_params_from_batch(f1))
    IN  Build([f EXCEPT !.in_batch_mode = FALSE])

\* BaseFigure._perform_batch_animate
_perform_batch_animate(f, animation_opts) ==
    LET Clear(f1) ==
            [f1 EXCEPT !.batch_layout_edits = <<>>,
                       !.batch_trace_edits = <<>>]
        Animate(r) ==
            IF Failed(r.f) THEN r.f
            ELSE DispatchChanges(
                     Clear(_send_animate_msg(
                               r.f,
                               [j \in 1..Len(r.f.batch_trace_edits) |->
                                   r.f.batch_trace_edits[j].val],
                               r.f.batch_layout_edits,
                               PyList(Keys(r.f.batch_trace_edits)),
                               animation_opts)),
                     r.restyle_changes, r.relayout_changes, r.trace_indexes)
        Update(params) ==
            Animate(_perform_plotly_update(f, params.restyle_data,
                                           params.relayout_data,
                                           params.trace_indexes))
    IN  Update(_build_update_params_from_batch(f))

\* The animation options that batch_animate builds
AnimationOpts(duration, easing) ==
    [transition |-> [duration |-> duration, easing |-> easing],
     frame |-> [duration |-> duration]]

\* The finally block of batch_animate
BatchAnimateFinally(f, duration, easing) ==
    _perform_batch_animate([f EXCEPT !.in_batch_mode = FALSE],
                           AnimationOpts(duration, easing))

\* A dict given to update: its items in order, the value of a compound
\* property being such a dict or None
UpdateDict(items) == [t |-> "update_dict", v |-> items]

RECURSIVE _perform_update_key_by_key(_, _, _)
\* _perform_update with each key tested when the loop reaches it
_perform_update_key_by_key(f, plotly_obj, update_obj) ==
    LET key == update_obj.v[1].key
        val == update_obj.v[1].val
    IN  IF Failed(f) \/ update_obj = None \/ update_obj.v = <<>> THEN f
        ELSE _perform_update_key_by_key(
                 IF key \notin DOMAIN _validators(plotly_obj)
                 THEN _raise_on_invalid_property_error(f, <<key>>)
                 ELSE IF _validators(plotly_obj)[key].kind = "compound"
                 THEN _perform_update_key_by_key(
                          f, Node(plotly_obj.root,
                                  Append(plotly_obj.path, key)), val)
                 ELSE __setitem__(f, plotly_obj, <<Name(key)>>, val),
                 plotly_obj, UpdateDict(Tail(update_obj.v)))

RECURSIVE _perform_update(_, _, _)
\* BaseFigure._perform_update(plotly_obj, update_obj) for a node and a dict
\* or None: all keys are tested before the first is processed. The loop over
\* the keys is the call on the rest of the dict, whose keys have all passed
\* the test already; an exception ends it
_perform_update(f, plotly_obj, update_obj) ==
    LET key == update_obj.v[1].key
        val == update_obj.v[1].val
        invalid_props ==
            SelectSeq([n \in 1..Len(update_obj.v) |-> update_obj.v[n].key],
                      LAMBDA k : k \notin DOMAIN _validators(plotly_obj))
    IN  IF Failed(f) \/ update_obj = None \/ update_obj.v = <<>> THEN f
        ELSE IF invalid_props # <<>>
        THEN _raise_on_invalid_property_error(f, invalid_props)
        ELSE _perform_update(
                 IF _validators(plotly_obj)[key].kind = "compound"
                 THEN _perform_update(
                          f, Node(plotly_obj.root,
                                  Append(plotly_obj.path, key)), val)
                 ELSE __setitem__(f, plotly_obj, <<Name(key)>>, val),
                 plotly_obj, UpdateDict(Tail(update_obj.v)))

\* BasePlotlyType.update(dict1): in a batch_update context when the node
\* belongs to a figure; an exception of the body goes on after the finally
\* block unless that block raises one itself
update(f, node, dict1) ==
    LET batch == f.parent[node.root] # "none" /\ ~f.in_batch_mode
        After(body, exit) ==
            IF Failed(body) /\ ~Failed(exit)
            THEN [exit EXCEPT !.err = body.err] ELSE exit
        Exit(body) ==
            IF ~batch THEN body
            ELSE After(body, BatchUpdateFinally([body EXCEPT !.err = "none"]))
    IN  Exit(_perform_update(
                 IF batch THEN [f EXCEPT !.in_batch_mode = TRUE] ELSE f,
                 node, dict1))

\* ------------------------------------------------------------------------
\* The trace list: add_traces and the data setter
\* ------------------------------------------------------------------------

\* add_traces that fails in a batch without clearing the pending edits
add_traces_keeps_edits(f, data) ==
    LET Added(new_traces_data, added) ==
            _send_addTraces_msg(
                [f EXCEPT
                   !.parent = [o \in DOMAIN @ |->
                                  IF o \in added THEN "fig" ELSE @[o]],
                   !.orphan_props = [o \in DOMAIN @ |->
                                        IF o \in added THEN EmptyDict
                                        ELSE @[o]],
                   !.data = @ \o new_traces_data,
                   !.data_defaults = @ \o [j \in 1..Len(data) |-> EmptyDict],
                   !.data_objs = @ \o data],
                new_traces_data)
    IN  IF f.in_batch_mode
        THEN Raise(f, "ValueError: Traces may not be added in a batch context")
        ELSE Added([j \in 1..Len(data) |-> _props(f, Node(data[j], <<>>))],
                   {data[j] : j \in 1..Len(data)})

\* add_traces that appends no defaults dict for the new traces
add_traces_without_defaults(f, data) ==
    LET Added(new_traces_data, added) ==
            _send_addTraces_msg(
                [f EXCEPT
                   !.parent = [o \in DOMAIN @ |->
                                  IF o \in added THEN "fig" ELSE @[o]],
                   !.orphan_props = [o \in DOMAIN @ |->
                                        IF o \in added THEN EmptyDict
                                        ELSE @[o]],
                   !.data = @ \o new_traces_data,
                   !.data_objs = @ \o data],
                new_traces_data)
    IN  IF f.in_batch_mode
        THEN Raise([f EXCEPT !.batch_layout_edits = <<>>,
                             !.batch_trace_edits = <<>>],
                   "ValueError: Traces may not be added in a batch context")
        ELSE Added([j \in 1..Len(data) |-> _props(f, Node(data[j], <<>>))],
                   {data[j] : j \in 1..Len(data)})

\* BaseFigure.add_traces with rows = cols = None; data is a list of trace
\* objects that belong to no figure
add_traces(f, data) ==
    LET Added(new_traces_data, added) ==
            _send_addTraces_msg(
                [f EXCEPT
                   !.parent = [o \in DOMAIN @ |->
                                  IF o \in added THEN "fig" ELSE @[o]],
                   !.orphan_props = [o \in DOMAIN @ |->
                                        IF o \in added THEN EmptyDict
                                        ELSE @[o]],
                   !.data = @ \o new_traces_data,
                   !.data_defaults = @ \o [j \in 1..Len(data) |-> EmptyDict],
                   !.data_objs = @ \o data],
                new_traces_data)
    IN  IF f.in_batch_mode
        THEN Raise([f EXCEPT !.batch_layout_edits = <<>>,
                             !.batch_trace_edits = <<>>],
                   "ValueError: Traces may not be added in a batch context")
        ELSE Added([j \in 1..Len(data) |-> _props(f, Node(data[j], <<>>))],
                   {data[j] : j \in 1..Len(data)})

\* The elements of seq at the positions (from 1) that are not in drop
Without(seq, drop) ==
    LET F[n \in 0..Len(seq)] ==
            IF n = 0 THEN <<>>
            ELSE IF n \in drop THEN F[n - 1] ELSE Append(F[n - 1], seq[n])
    IN  F[Len(seq)]

\* [x for i, x in sorted(zip(inds, items))]: sorted() is stable, and the
\* items of equal inds are equal
SortByInds(inds, items) ==
    LET Rank(j) ==
            Cardinality({m \in 1..Len(inds) :
                            \/ inds[m] < inds[j]
                            \/ inds[m] = inds[j] /\ m < j}) + 1
    IN  [n \in 1..Len(inds) |->
            items[CHOOSE j \in 1..Len(inds) : Rank(j) = n]]

\* new_uids.index(uid_val), from 0
IndexOf(seq, x) == (CHOOSE j \in 1..Len(seq) :
                        seq[j] = x /\ \A m \in 1..(j - 1) : seq[m] # x) - 1

\* The data setter after its validation: the traces whose uid is not among
\* new_uids are removed and the others are moved to their new positions
data_setter_remove_and_move(f, new_data, orig_uids, new_uids) ==
    LET uid_set(uids) == {uids[j] : j \in 1..Len(uids)}
        \* sorted() of pairs compares the dicts of two pairs whose ints tie
        \* and raises TypeError unless the dicts are equal
        Unorderable(inds, items) ==
            \E j, m \in 1..Len(inds) :
                j # m /\ inds[j] = inds[m] /\ items[j] # items[m]
        RECURSIVE InsertEach(_, _, _)
        \* for ni, trace_data in zip(inds, items): lst.insert(ni, trace_data)
        InsertEach(lst, inds, items) ==
            IF inds = <<>> THEN lst
            ELSE InsertEach(
                     IF inds[1] < Len(lst)
                     THEN SubSeq(lst, 1, inds[1]) \o <<items[1]>>
                              \o SubSeq(lst, inds[1] + 1, Len(lst))
                     ELSE Append(lst, items[1]),
                     Tail(inds), Tail(items))
        Defaults(f4, new_inds, traces_prop_defaults_post_removal) ==
            IF Unorderable(new_inds, traces_prop_defaults_post_removal)
            THEN Raise(f4, "TypeError")
            ELSE [f4 EXCEPT
                    !.data_defaults =
                        SortByInds(new_inds, traces_prop_defaults_post_removal),
                    !.data_objs = new_data.v]
        Sorted(f3, new_inds, current_inds, traces_prop_defaults_post_removal) ==
            IF new_inds = current_inds
            THEN Defaults(f3, new_inds, traces_prop_defaults_post_removal)
            ELSE IF Unorderable(new_inds, f3.data)
            THEN Raise([f3 EXCEPT !.data = <<>>], "TypeError")
            ELSE Defaults([f3 EXCEPT
                              !.data = InsertEach(<<>>,
                                                  SortByInds(new_inds, new_inds),
                                                  SortByInds(new_inds, @))],
                          SortByInds(new_inds, new_inds),
                          traces_prop_defaults_post_removal)
        Moved(f2, new_inds, current_inds, traces_prop_defaults_post_removal) ==
            Sorted(IF new_inds # current_inds
                   THEN _send_moveTraces_msg(f2, PyList(current_inds),
                                             PyList(new_inds))
                   ELSE f2,
                   new_inds, current_inds, traces_prop_defaults_post_removal)
        Deleted(f1, delete_inds, uids_post_removal,
                traces_prop_defaults_post_removal) ==
            Moved(IF delete_inds # <<>>
                  THEN _send_deleteTraces_msg(f1, PyList(delete_inds))
                  ELSE f1,
                  [j \in 1..Len(uids_post_removal) |->
                      IndexOf(new_uids, uids_post_removal[j])],
                  [j \in 1..Len(f1.data) |-> j - 1],
                  traces_prop_defaults_post_removal)
        Unparented(removed) ==
            [f EXCEPT
                !.orphan_props =
                    [o \in DOMAIN @ |->
                        IF o \in removed
                        THEN DictUpdate(@[o], _props(f, Node(o, <<>>)))
                        ELSE @[o]],
                !.parent = [o \in DOMAIN @ |->
                               IF o \in removed THEN "none" ELSE @[o]]]
        Removed(delete_pos, removed) ==
            Deleted([Unparented(removed) EXCEPT
                        !.data = Without(@, delete_pos)],
                    [n \in 1..Cardinality(delete_pos) |->
                        SortedInts(delete_pos)[n] - 1],
                    Without(orig_uids, delete_pos),
                    Without(f.data_defaults, delete_pos))
        Remove(delete_pos) ==
            IF \E j \in delete_pos : j > Len(f.data_objs)
            THEN \* self.data[i] of a state dict past the last trace object
                 Raise(Unparented({f.data_objs[j] :
                                      j \in delete_pos \cap 1..Len(f.data_objs)}),
                       "IndexError")
            ELSE Removed(delete_pos,
                         {f.data_objs[j] : j \in delete_pos})
    IN  Remove({j \in 1..Len(f.data) : orig_uids[j] \notin uid_set(new_uids)})

\* The data setter without the check for duplicated uids
data_setter_accepts_duplicates(f, new_data) ==
    LET uid_set(uids) == {uids[j] : j \in 1..Len(uids)}
        \* trace.uid of a trace of the figure that _get_child_props does not
        \* find among the trace objects, or whose state dict is missing
        Unreadable(o) ==
            /\ f.parent[o] = "fig"
            /\ \/ _index_is(f.data_objs, o) < 0
               \/ _index_is(f.data_objs, o) >= Len(f.data)
        Unread(o) ==
            IF _index_is(f.data_objs, o) < 0
            THEN "ValueError: Unrecognized child" ELSE "IndexError"
        Validated(orig_uids, new_uids) ==
            IF uid_set(new_uids) \ uid_set(orig_uids) # {}
            THEN Raise(f, "ValueError: Invalid trace(s)")
            ELSE data_setter_remove_and_move(f, new_data, orig_uids, new_uids)
    IN  IF ~IsList(new_data)
        THEN Raise(f, "ValueError: Received value with type")
        ELSE IF \E j \in 1..Len(new_data.v) : new_data.v[j] \notin TraceObjs
        THEN Raise(f, "ValueError: Received element value of type")
        ELSE IF \E j \in 1..Len(f.data) : Name(uid) \notin DOMAIN f.data[j].v
        THEN Raise(f, "KeyError")
        ELSE IF \E j \in 1..Len(new_data.v) : Unreadable(new_data.v[j])
        THEN Raise(f, Unread(new_data.v[CHOOSE j \in 1..Len(new_data.v) :
                                 /\ Unreadable(new_data.v[j])
                                 /\ \A m \in 1..(j - 1) :
                                        ~Unreadable(new_data.v[m])]))
        ELSE Validated([j \in 1..Len(f.data) |-> f.data[j].v[Name(uid)]],
                       [j \in 1..Len(new_data.v) |->
                           __getitem__(f, Node(new_data.v[j], <<>>),
                                       <<Name(uid)>>)])

\* The data setter, for a Python value new_data: a list holds objects
data_setter(f, new_data) ==
    LET uid_set(uids) == {uids[j] : j \in 1..Len(uids)}
        \* trace.uid of a trace of the figure that _get_child_props does not
        \* find among the trace objects, or whose state dict is missing
        Unreadable(o) ==
            /\ f.parent[o] = "fig"
            /\ \/ _index_is(f.data_objs, o) < 0
               \/ _index_is(f.data_objs, o) >= Len(f.data)
        Unread(o) ==
            IF _index_is(f.data_objs, o) < 0
            THEN "ValueError: Unrecognized child" ELSE "IndexError"
        Validated(orig_uids, new_uids) ==
            IF uid_set(new_uids) \ uid_set(orig_uids) # {}
            THEN Raise(f, "ValueError: Invalid trace(s)")
            ELSE IF \E u \in uid_set(new_uids) :
                       Cardinality({j \in 1..Len(new_uids) :
                                       new_uids[j] = u}) > 1
            THEN Raise(f, "ValueError: Received duplicated traces")
            ELSE data_setter_remove_and_move(f, new_data, orig_uids, new_uids)
    IN  IF ~IsList(new_data)
        THEN Raise(f, "ValueError: Received value with type")
        ELSE IF \E j \in 1..Len(new_data.v) : new_data.v[j] \notin TraceObjs
        THEN Raise(f, "ValueError: Received element value of type")
        ELSE IF \E j \in 1..Len(f.data) : Name(uid) \notin DOMAIN f.data[j].v
        THEN Raise(f, "KeyError")
        ELSE IF \E j \in 1..Len(new_data.v) : Unreadable(new_data.v[j])
        THEN Raise(f, Unread(new_data.v[CHOOSE j \in 1..Len(new_data.v) :
                                 /\ Unreadable(new_data.v[j])
                                 /\ \A m \in 1..(j - 1) :
                                        ~Unreadable(new_data.v[m])]))
        ELSE Validated([j \in 1..Len(f.data) |-> f.data[j].v[Name(uid)]],
                       [j \in 1..Len(new_data.v) |->
                           __getitem__(f, Node(new_data.v[j], <<>>),
                                       <<Name(uid)>>)])

\* The layout setter that leaves the old layout object its parent
layout_setter_keeps_old_parent(f, new_layout) ==
    LET Attached(new_layout_data) ==
            _send_relayout_msg(
                [f EXCEPT
                   !.orphan_props =
                       [o \in DOMAIN @ |->
                           IF o = new_layout THEN EmptyDict
                           ELSE IF o = f.layout_obj
                           THEN DictUpdate(@[o], _props(f, Node(o, <<>>)))
                           ELSE @[o]],
                   !.parent = [o \in DOMAIN @ |->
                                  IF o = new_layout THEN "fig" ELSE @[o]],
                   !.layout = new_layout_data,
                   !.layout_obj = new_layout],
                new_layout_data)
    IN  Attached(_props(f, Node(new_layout, <<>>)))

\* The layout setter, for a layout object new_layout
layout_setter(f, new_layout) ==
    LET Attached(new_layout_data) ==
            _send_relayout_msg(
                [f EXCEPT
                   !.orphan_props =
                       [o \in DOMAIN @ |->
                           IF o = new_layout THEN EmptyDict
                           ELSE IF o = f.layout_obj
                           THEN DictUpdate(@[o], _props(f, Node(o, <<>>)))
                           ELSE @[o]],
                   !.parent = [o \in DOMAIN @ |->
                                  IF o = new_layout THEN "fig"
                                  ELSE IF o = f.layout_obj THEN "none"
                                  ELSE @[o]],
                   !.layout = new_layout_data,
                   !.layout_obj = new_layout],
                new_layout_data)
    IN  Attached(_props(f, Node(new_layout, <<>>)))

\* ------------------------------------------------------------------------
\* on_change and to_dict
\* ------------------------------------------------------------------------

\* BasePlotlyType.on_change(callback, *args, append=append)
on_change(f, node, callback, args, append) ==
    LET Registered(regs1, arg_tuples) ==
            [f EXCEPT !.change_callbacks =
                [n \in DOMAIN @ \cup {node} |->
                    IF n = node
                    THEN Put(regs1, arg_tuples,
                             Append(Get(regs1, arg_tuples), callback))
                    ELSE @[n]]]
        Register(regs, arg_tuples) ==
            Registered(IF ~Has(regs, arg_tuples) \/ ~append
                       THEN Put(regs, arg_tuples, <<>>) ELSE regs,
                       arg_tuples)
        Validated(contained, arg_tuples) ==
            IF \E j \in 1..Len(args) : contained[j] \notin {"True", "False"}
            THEN Raise(f, contained[CHOOSE j \in 1..Len(args) :
                                       contained[j] \notin {"True", "False"}])
            ELSE IF \E j \in 1..Len(args) : contained[j] = "False"
            THEN Raise(f, "ValueError: Invalid property specification(s)")
            ELSE Register(_change_callbacks(f, node), arg_tuples)
        Parsed(arg_tuples) ==
            Validated([j \in 1..Len(args) |->
                          __contains__(f, node, arg_tuples[j])],
                      arg_tuples)
    IN  IF f.parent[node.root] = "none"
        THEN Raise(f, "ValueError: not a descendant of a Figure")
        ELSE IF Len(args) = 0
        THEN Raise(f, "ValueError: At least one change property")
        ELSE Parsed([j \in 1..Len(args) |-> _str_to_dict_path(args[j])])

\* BaseFigure.to_dict (the model has no frames)
to_dict(f) == [data |-> f.data, layout |-> f.layout]

\* ------------------------------------------------------------------------
\* The figure as a state machine
\* ------------------------------------------------------------------------

VARIABLES
    data_objs,          \* BaseFigure._data_objs: the trace objects, in order
    data,               \* BaseFigure._data: the state dict of each trace
    data_defaults,      \* BaseFigure._data_defaults
    layout_obj,         \* BaseFigure._layout_obj
    layout,             \* BaseFigure._layout: the state dict of the layout
    layout_defaults,    \* BaseFigure._layout_defaults
    parent,             \* _parent of each root object: "fig" or "none"
    orphan_props,       \* _orphan_props of each root object
    in_batch_mode,      \* BaseFigure._in_batch_mode
    batch_trace_edits,  \* BaseFigure._batch_trace_edits
    batch_layout_edits, \* BaseFigure._batch_layout_edits
    change_callbacks,   \* _change_callbacks of the nodes that have some
    ctx,                \* the open batch context managers, innermost last
                        \* (the node objects, where compound properties
                        \* are assigned)
    op,                 \* the last operation and its arguments
    log,                \* the messages sent and callbacks invoked by it
    err                 \* the exception it raised, "none" if it returned

vars == <<data_objs, data, data_defaults, layout_obj, layout, layout_defaults,
          parent, orphan_props, in_batch_mode, batch_trace_edits,
          batch_layout_edits, change_callbacks, ctx, op, log, err>>

\* The figure at the start of an operation
Fig ==
    [data_objs |-> data_objs, data |-> data, data_defaults |-> data_defaults,
     layout_obj |-> layout_obj, layout |-> layout,
     layout_defaults |-> layout_defaults, parent |-> parent,
     orphan_props |-> orphan_props, in_batch_mode |-> in_batch_mode,
     batch_trace_edits |-> batch_trace_edits,
     batch_layout_edits |-> batch_layout_edits,
     change_callbacks |-> change_callbacks, log |-> <<>>, err |-> "none"]

\* The figure at the end of an operation becomes the state
Becomes(f) ==
    /\ data_objs' = f.data_objs
    /\ data' = f.data
    /\ data_defaults' = f.data_defaults
    /\ layout_obj' = f.layout_obj
    /\ layout' = f.layout
    /\ layout_defaults' = f.layout_defaults
    /\ parent' = f.parent
    /\ orphan_props' = f.orphan_props
    /\ in_batch_mode' = f.in_batch_mode
    /\ batch_trace_edits' = f.batch_trace_edits
    /\ batch_layout_edits' = f.batch_layout_edits
    /\ change_callbacks' = f.change_callbacks
    /\ log' = f.log
    /\ err' = f.err

\* The uid each trace object was constructed with
UidOf(trace) ==
    Str(IF trace = "trace_a" THEN <<"a">>
        ELSE IF trace = "trace_b" THEN <<"b">> ELSE <<"c">>)

\* The figure constructed by BaseFigure.__init__ with no traces and an empty
\* layout; every trace object of the pool is constructed and belongs to no
\* figure yet, and so does a second layout object, constructed with a title
EmptyFigure ==
    [data_objs |-> <<>>, data |-> <<>>, data_defaults |-> <<>>,
     layout_obj |-> "layout_1", layout |-> EmptyDict,
     layout_defaults |-> EmptyDict,
     parent |-> [o \in TraceObjs \cup LayoutObjs |->
                    IF o = "layout_1" THEN "fig" ELSE "none"],
     orphan_props |-> [o \in TraceObjs \cup LayoutObjs |->
                          IF o \in TraceObjs
                          THEN Dict((Name(uid) :> UidOf(o)))
                          ELSE IF o = "layout_2"
                          THEN Dict((Name(title) :> Str(<<"r">>)))
                          ELSE EmptyDict],
     in_batch_mode |-> FALSE, batch_trace_edits |-> <<>>,
     batch_layout_edits |-> <<>>, change_callbacks |-> <<>>,
     log |-> <<>>, err |-> "none"]

\* The state is the figure f
Is(f) ==
    /\ data_objs = f.data_objs
    /\ data = f.data
    /\ data_defaults = f.data_defaults
    /\ layout_obj = f.layout_obj
    /\ layout = f.layout
    /\ layout_defaults = f.layout_defaults
    /\ parent = f.parent
    /\ orphan_props = f.orphan_props
    /\ in_batch_mode = f.in_batch_mode
    /\ batch_trace_edits = f.batch_trace_edits
    /\ batch_layout_edits = f.batch_layout_edits
    /\ change_callbacks = f.change_callbacks
    /\ log = f.log
    /\ err = f.err

Init ==
    /\ Is(EmptyFigure)
    /\ ctx = <<>>
    /\ op = [name |-> "init"]

\* ------------------------------------------------------------------------
\* Operations
\* ------------------------------------------------------------------------

\* The deepest nesting of batch contexts explored
MaxBatchDepth == 2

\* batch_animate's default duration and easing
DefaultDuration == 500

DefaultEasing == "cubic-in-out"

\* batch_update without the test for an open batch: every entry opens a
\* batch of its own
BatchUpdateEnter_not_reentrant ==
    /\ Len(ctx) < MaxBatchDepth
    /\ Becomes([Fig EXCEPT !.in_batch_mode = TRUE])
    /\ ctx' = Append(ctx, "update")
    /\ op' = [name |-> "batch_update_enter"]

\* Entering "with fig.batch_update():"
BatchUpdateEnter ==
    /\ Len(ctx) < MaxBatchDepth
    /\ IF in_batch_mode
       THEN /\ Becomes(Fig)
            /\ ctx' = Append(ctx, "passthrough")
       ELSE /\ Becomes([Fig EXCEPT !.in_batch_mode = TRUE])
            /\ ctx' = Append(ctx, "update")
    /\ op' = [name |-> "batch_update_enter"]

\* Entering "with fig.batch_animate():" with valid duration and easing
BatchAnimateEnter ==
    /\ Len(ctx) < MaxBatchDepth
    /\ IF in_batch_mode
       THEN /\ Becomes(Fig)
            /\ ctx' = Append(ctx, "passthrough")
       ELSE /\ Becomes([Fig EXCEPT !.in_batch_mode = TRUE])
            /\ ctx' = Append(ctx, "animate")
    /\ op' = [name |-> "batch_animate_enter"]

\* The exception that goes on after a with block: the one raised by the
\* finally block, else the one the body raised
AfterBody(f, raised) ==
    IF ~Failed(f) /\ raised THEN Raise(f, "BodyException") ELSE f

\* Leaving the innermost with block, normally or because its body raised
BatchExit(raised) ==
    /\ ctx # <<>>
    /\ LET kind == ctx[Len(ctx)]
       IN  Becomes(AfterBody(
               IF kind = "update" THEN BatchUpdateFinally(Fig)
               ELSE IF kind = "animate"
               THEN BatchAnimateFinally(Fig, DefaultDuration, DefaultEasing)
               ELSE Fig,
               raised))
    /\ ctx' = SubSeq(ctx, 1, Len(ctx) - 1)
    /\ op' = [name |-> "batch_exit", kind |-> ctx[Len(ctx)], raised |-> raised]

\* The trace objects the operations of the session use
SessionTraces == {"trace_a", "trace_b"}

\* The simple properties written in the session: node and property name
WriteTargets ==
    {[node |-> Node(o, <<marker>>), prop |-> color] : o \in SessionTraces}
        \cup {[node |-> Node("layout_1", <<>>), prop |-> title]}

Red == Str(<<"r">>)

\* The values written: a colour or Undefined to the traces, a title, None or
\* Undefined to the layout
WriteVals(node) ==
    IF node.root \in TraceObjs THEN {Red, Undefined} ELSE {Red, None, Undefined}

\* node.prop = val, on a node of the figure
SetProp(node, prop, val) ==
    /\ parent[node.root] = "fig"
    /\ Becomes(_set_prop(Fig, node, prop, val))
    /\ op' = [name |-> "set_prop", node |-> node, prop |-> prop, val |-> val]
    /\ UNCHANGED ctx

RECURSIVE Perms(_)
\* The lists without repetition of the elements of S
Perms(S) ==
    IF S = {} THEN {<<>>}
    ELSE UNION {{<<x>> \o p : p \in Perms(S \ {x})} : x \in S}

\* The lists without repetition of elements of S
ListsOf(S) == UNION {Perms(T) : T \in SUBSET S}

\* fig.add_traces(new_traces) for traces that belong to no figure
AddTraces(new_traces) ==
    /\ new_traces # <<>>
    /\ \A j \in 1..Len(new_traces) : parent[new_traces[j]] = "none"
    /\ Becomes(add_traces(Fig, new_traces))
    /\ op' = [name |-> "add_traces", data |-> new_traces]
    /\ UNCHANGED ctx

\* fig.data = new_data
SetData(new_data) ==
    /\ Becomes(data_setter(Fig, new_data))
    /\ op' = [name |-> "data", new_data |-> new_data]
    /\ UNCHANGED ctx

\* The registrations made in the session
Registrations ==
    {[node |-> Node("trace_a", <<marker>>), args |-> <<color>>]}

\* node.on_change(callback, *args)
OnChange(node, callback, args, append) ==
    /\ Becomes(on_change(Fig, node, callback, args, append))
    /\ op' = [name |-> "on_change", node |-> node, args |-> args]
    /\ UNCHANGED ctx

Next ==
    \/ BatchUpdateEnter
    \/ BatchAnimateEnter
    \/ \E raised \in BOOLEAN : BatchExit(raised)
    \/ \E w \in WriteTargets : \E val \in WriteVals(w.node) :
           SetProp(w.node, w.prop, val)
    \/ \E new_traces \in ListsOf(SessionTraces) : AddTraces(new_traces)
    \/ \E new_data \in ListsOf(SessionTraces) : SetData(List(new_data))
    \/ \E r \in Registrations : OnChange(r.node, "cb", r.args, FALSE)

Spec == Init /\ [][Next]_vars

\* ------------------------------------------------------------------------
\* Single requests on constructed figures
\* ------------------------------------------------------------------------

Blue == Str(<<"b">>)

AllTraces == <<"trace_a", "trace_b", "trace_c">>

\* The state dict of a trace constructed with or without a marker colour
TraceProps(trace, with_marker) ==
    IF with_marker
    THEN Dict((Name(uid) :> UidOf(trace))
                  @@ (Name(marker) :> Dict((Name(color) :> Red))))
    ELSE Dict((Name(uid) :> UidOf(trace)))

\* The figure constructed by BaseFigure.__init__ from the first n traces,
\* those of with_marker constructed with a marker colour, and a layout with
\* the properties layout_props
Constructed(n, with_marker, layout_props) ==
    LET traces == SubSeq(AllTraces, 1, n)
        attached == {traces[j] : j \in 1..n}
    IN  [EmptyFigure EXCEPT
            !.data_objs = traces,
            !.data = [j \in 1..n |->
                         TraceProps(traces[j], traces[j] \in with_marker)],
            !.data_defaults = [j \in 1..n |-> EmptyDict],
            !.layout = layout_props,
            !.parent = [o \in DOMAIN @ |->
                           IF o \in attached THEN "fig" ELSE @[o]],
            !.orphan_props = [o \in DOMAIN @ |->
                                 IF o \in attached THEN EmptyDict ELSE @[o]]]

\* The figure with a callback on the marker colour of its first trace, one on
\* the title of its layout, and one on the range of the x axis and the title
Observed(f) ==
    on_change(on_change(on_change(f, Node("trace_a", <<marker>>), "cb_color",
                                  <<color>>, FALSE),
                        Node("layout_1", <<>>), "cb_title", <<title>>, FALSE),
              Node("layout_1", <<>>), "cb_range",
              <<xaxis \o Period \o range, title>>, FALSE)

\* The figures the requests are made on
RequestFigures ==
    {Observed(Constructed(n, with_marker, layout_props)) :
        n \in 1..3, with_marker \in SUBSET {"trace_a", "trace_b"},
        layout_props \in {EmptyDict, Dict((Name(title) :> Red))}}

InitRequests ==
    /\ \E f \in RequestFigures : Is(f)
    /\ ctx = <<>>
    /\ op = [name |-> "init"]

\* The key paths of the restyle requests
RestyleKeys1 ==
    {marker \o Period \o color, uid, marker \o Period \o title,
     uid \o Period \o color, Bracket(marker \o Period \o color, "1")}

\* The values of the restyle requests
RestyleVals ==
    {Red, Blue, None, List(<<Red>>), List(<<Red, Blue>>),
     List(<<Blue, Undefined>>)}

\* The restyle requests: one key, the marker colour and the uid, or the
\* marker colour and a key that is not a declared property
RestyleRequests ==
    {<<Item(k, v)>> : k \in RestyleKeys1, v \in RestyleVals}
        \cup {<<Item(marker \o Period \o color, v), Item(uid, w)>> :
                 v \in {Red, None}, w \in {Blue, UidOf("trace_a")}}
        \cup {<<Item(marker \o Period \o color, Blue),
                Item(marker \o Period \o title, Red)>>}

\* The trace_indexes arguments
IndexRequests ==
    {None, Num(0), Num(2), List(<<Num(0), Num(1)>>), List(<<Num(1), Num(0)>>),
     List(<<Num(0), Num(1), Num(2)>>), List(<<Num(2), Num(0)>>)}

\* The relayout requests
RelayoutRequests ==
    {<<Item(k, v)>> :
        k \in {title, xaxis \o Period \o range, title \o Period \o color,
               color, Bracket(title, "0")},
        v \in {Red, Blue, None}}
        \cup {<<Item(title, v), Item(xaxis \o Period \o range, w)>> :
                 v \in {Red, None}, w \in {Red, None}}
        \cup {<<Item(Bracket(xaxis \o Period \o range, "0"), Red),
                Item(Bracket(xaxis \o Period \o range, "1"), Blue)>>}

\* fig.plotly_restyle(restyle_data, trace_indexes)
PlotlyRestyle(restyle_data, trace_indexes) ==
    /\ op.name = "init"
    /\ Becomes(plotly_restyle(Fig, restyle_data, trace_indexes))
    /\ op' = [name |-> "plotly_restyle", restyle_data |-> restyle_data,
              trace_indexes |-> trace_indexes, before |-> Fig]
    /\ UNCHANGED ctx

\* fig.plotly_relayout(relayout_data)
PlotlyRelayout(relayout_data) ==
    /\ op.name = "init"
    /\ Becomes(plotly_relayout(Fig, relayout_data))
    /\ op' = [name |-> "plotly_relayout", relayout_data |-> relayout_data,
              before |-> Fig]
    /\ UNCHANGED ctx

\* fig.plotly_update(restyle_data, relayout_data, trace_indexes)
PlotlyUpdate(restyle_data, relayout_data, trace_indexes) ==
    /\ op.name = "init"
    /\ Becomes(plotly_update(Fig, restyle_data, relayout_data, trace_indexes))
    /\ op' = [name |-> "plotly_update", restyle_data |-> restyle_data,
              relayout_data |-> relayout_data,
              trace_indexes |-> trace_indexes, before |-> Fig]
    /\ UNCHANGED ctx

\* The restyle and relayout parts of the update requests: none, a colour or
\* title set or removed, and a key that is not a declared property
UpdateRestyleRequests ==
    {<<>>, <<Item(marker \o Period \o title, Red)>>}
        \cup {<<Item(marker \o Period \o color, v)>> : v \in {Red, None}}

UpdateRelayoutRequests ==
    {<<>>, <<Item(color, Red)>>} \cup {<<Item(title, v)>> : v \in {Red, None}}

\* A write node.prop = val
Write(node, prop, val) == [node |-> node, prop |-> prop, val |-> val]

RECURSIVE ApplyWrites(_, _)
\* The figure after the writes, made one after the other on the figure f
ApplyWrites(f, writes) ==
    IF writes = <<>> \/ Failed(f) THEN f
    ELSE ApplyWrites(_set_prop(f, Head(writes).node, Head(writes).prop,
                               Head(writes).val),
                     Tail(writes))

\* The figure after "with fig.batch_update():" with the writes as its body
InOneBatch(f, writes) ==
    BatchUpdateFinally(ApplyWrites([f EXCEPT !.in_batch_mode = TRUE], writes))

\* The values written in the batches: colours to the marker, a uid to the
\* trace
BatchVals(prop) == IF prop = color THEN {Red, Blue} ELSE {Str(<<"z">>)}

\* The bodies of the batches: one or two writes, to different properties of
\* the traces
BatchWrites ==
    LET targets ==
            {[node |-> Node(o, <<marker>>), prop |-> color] : o \in TraceObjs}
                \cup {[node |-> Node(o, <<>>), prop |-> uid] : o \in TraceObjs}
        writes == {Write(t.node, t.prop, val) :
                      t \in targets, val \in {Red, Blue, Str(<<"z">>)}}
        valid == {w \in writes : w.val \in BatchVals(w.prop)}
    IN  {<<w>> : w \in valid}
            \cup {ws \in {<<w1, w2>> : w1 \in valid, w2 \in valid} :
                     ws[1].node # ws[2].node \/ ws[1].prop # ws[2].prop}

\* "with fig.batch_update():" with the writes, on traces of the figure, as
\* its body
BatchUpdate(writes) ==
    /\ op.name = "init"
    /\ \A n \in 1..Len(writes) : parent[writes[n].node.root] = "fig"
    /\ Becomes(InOneBatch(Fig, writes))
    /\ op' = [name |-> "batch_update", writes |-> writes, before |-> Fig]
    /\ UNCHANGED ctx

NextRequests ==
    \/ \E restyle_data \in RestyleRequests, trace_indexes \in IndexRequests :
           PlotlyRestyle(restyle_data, trace_indexes)
    \/ \E relayout_data \in RelayoutRequests : PlotlyRelayout(relayout_data)
    \/ \E restyle_data \in UpdateRestyleRequests,
          relayout_data \in UpdateRelayoutRequests,
          trace_indexes \in {None, Num(0), List(<<Num(0), Num(0)>>)} :
           PlotlyUpdate(restyle_data, relayout_data, trace_indexes)
    \/ \E writes \in BatchWrites : BatchUpdate(writes)

SpecRequests == InitRequests /\ [][NextRequests]_vars

\* ------------------------------------------------------------------------
\* _set_in on a state dict
\* ------------------------------------------------------------------------

\* A figure whose layout state is empty, holds a title, or holds a list
InitSetIn ==
    /\ \E d \in {EmptyDict, Dict((Name(title) :> Red)),
                  Dict((Name(<<"x">>) :> List(<<Num(0)>>)))} :
           Is([EmptyFigure EXCEPT !.layout = d])
    /\ ctx = <<>>
    /\ op = [name |-> "init"]

\* BaseFigure._set_in(self._layout, key_path_str, v); the call is repeated
\* when the call before it had the same arguments
SetIn(key_path_str, v) ==
    /\ LET Returned(r) ==
               /\ Becomes(IF r.err = "none" THEN [Fig EXCEPT !.layout = r.val]
                          ELSE Raise([Fig EXCEPT !.layout = r.val], r.err))
               /\ op' = [name |-> "_set_in", key_path_str |-> key_path_str,
                         v |-> v, val_changed |-> r.changed,
                         repeated |-> /\ op.name = "_set_in"
                                      /\ op.key_path_str = key_path_str
                                      /\ op.v = v]
       IN  Returned(_set_in(layout, key_path_str, v))
    /\ UNCHANGED ctx

\* The paths are a key, a nested key, a list element and a key of the first
\* and of the second list element; the values are a str, float('nan'), a list with float('nan'),
\* None and Undefined
NextSetIn ==
    \E key_path_str \in {title, title \o Period \o color,
                         <<"x", "[", "1", "]">>,
                         <<"x", "[", "0", "]">> \o Period \o color,
                         <<"x", "[", "1", "]">> \o Period \o color},
       v \in {Red, NaN, List(<<Num(1), NaN>>), None, Undefined} :
        SetIn(key_path_str, v)

SpecSetIn == InitSetIn /\ [][NextSetIn]_vars

\* ------------------------------------------------------------------------
\* The trace collection and the layout of a figure
\* ------------------------------------------------------------------------

\* The figure constructed without traces; trace_c is constructed with a uid
\* of its own or with the uid of trace_a, and with or without a marker colour
InitTraces ==
    /\ \E uid_c \in {UidOf("trace_a"), UidOf("trace_c")}, with_marker \in BOOLEAN :
           Is([EmptyFigure EXCEPT
                  !.orphan_props["trace_c"] =
                      Dict((Name(uid) :> uid_c)
                               @@ IF with_marker
                                  THEN TraceProps("trace_c", TRUE).v
                                  ELSE <<>>)])
    /\ ctx = <<>>
    /\ op = [name |-> "init"]

\* The values assigned to fig.data: lists of distinct trace objects, a list
\* that repeats one, lists with an element that is no trace, and None
DataValues ==
    {List(new_data) : new_data \in ListsOf(TraceObjs)}
        \cup {List(<<"trace_a", "trace_a">>), List(<<"layout_1">>),
              List(<<"trace_a", "layout_1">>), None}

\* fig.layout = new_layout, for the layout object the validator makes of
\* the value
SetLayout(new_layout) ==
    /\ Becomes(layout_setter(Fig, new_layout))
    /\ op' = [name |-> "layout", new_layout |-> new_layout]
    /\ UNCHANGED ctx

\* The figure has one state dict and one defaults dict per trace object
Parallel == Len(data) = Len(data_objs) /\ Len(data_defaults) = Len(data_objs)

\* The operations are made on figures whose trace lists are parallel
NextTraces ==
    /\ Parallel
    /\ \/ \E new_traces \in ListsOf(TraceObjs) : AddTraces(new_traces)
       \/ \E new_data \in DataValues : SetData(new_data)
       \/ \E new_layout \in LayoutObjs \ {layout_obj} : SetLayout(new_layout)
       \/ \E j \in 1..Len(data_objs) :
              SetProp(Node(data_objs[j], <<>>), uid, UidOf("trace_a"))
       \/ SetProp(Node(layout_obj, <<>>), title, Blue)

SpecTraces == InitTraces /\ [][NextTraces]_vars

\* ------------------------------------------------------------------------
\* Data assignment on a figure with defaults
\* ------------------------------------------------------------------------

\* The defaults that the front end of a widget reports for a trace without a
\* marker colour (the _data_defaults of a figure are empty dicts otherwise)
ReportedDefaults(trace) ==
    Dict((Name(marker) :> Dict((Name(color) :> UidOf(trace)))))

\* The figure constructed from three traces, some with a marker colour, the
\* defaults of the others populated
InitAssign ==
    /\ \E with_marker \in SUBSET {"trace_a", "trace_b", "trace_c"} :
           Is([Constructed(3, with_marker, EmptyDict) EXCEPT
                  !.data_defaults =
                      [j \in 1..3 |->
                          IF AllTraces[j] \in with_marker THEN EmptyDict
                          ELSE ReportedDefaults(AllTraces[j])]])
    /\ ctx = <<>>
    /\ op = [name |-> "init"]

NextAssign == \E new_data \in ListsOf(TraceObjs) : SetData(List(new_data))

SpecAssign == InitAssign /\ [][NextAssign]_vars

\* ------------------------------------------------------------------------
\* Properties of the batch contexts
\* ------------------------------------------------------------------------

\* The positions in the log l of the events of the kinds
Positions(l, kinds) == {j \in 1..Len(l) : l[j].ev \in kinds}

\* The figure a single plotly_update with the pending edits makes of the
\* figure f at the exit of its outermost batch
SingleUpdate(f) ==
    LET Update(f0, params) ==
            plotly_update(f0, params.restyle_data, params.relayout_data,
                          params.trace_indexes)
        Build(f0) == Update(f0, _build_update_params_from_batch(f0))
    IN  Build([f EXCEPT !.in_batch_mode = FALSE])

C2_BatchWriteLeavesState ==
    [][(/\ in_batch_mode
        /\ op'.name = "set_prop"
        /\ __getitem__(Fig, op'.node, <<Name(op'.prop)>>) # op'.val)
          => /\ [data |-> data', layout |-> layout'] = to_dict(Fig)
             /\ IF op'.node.root \in TraceObjs
                THEN LET trace_index == _index_is(data_objs, op'.node.root)
                         key == marker \o Period \o op'.prop
                     IN  /\ Has(batch_trace_edits', trace_index)
                         /\ Has(Get(batch_trace_edits', trace_index), key)
                         /\ Get(Get(batch_trace_edits', trace_index), key)
                                = op'.val
                ELSE /\ Has(batch_layout_edits', op'.prop)
                     /\ Get(batch_layout_edits', op'.prop) = op'.val]_vars

\* C3 as stated: after the exit of an outermost batch context, normal or
\* not, the figure is not in batch mode and both pending edit collections
\* are empty
C3_ExitClearsBatch ==
    (op.name = "batch_exit" /\ ctx = <<>>)
        => /\ ~in_batch_mode
           /\ batch_trace_edits = <<>>
           /\ batch_layout_edits = <<>>

\* C4: the exit of a batch context nested in an open one leaves the figure
\* in batch mode, keeps the pending edits, changes no trace or layout state
\* and sends nothing; update and animate messages are sent only by an exit
\* that leaves no batch context open
C4_NestedBatchIsPassthrough ==
    [][/\ (op'.name = "batch_exit" /\ ctx' # <<>>)
          => /\ in_batch_mode'
             /\ batch_trace_edits' = batch_trace_edits
             /\ batch_layout_edits' = batch_layout_edits
             /\ data' = data
             /\ layout' = layout
             /\ log' = <<>>
       /\ (op'.name \in {"batch_update_enter", "batch_animate_enter"}
           /\ in_batch_mode)
          => /\ in_batch_mode'
             /\ batch_trace_edits' = batch_trace_edits
             /\ batch_layout_edits' = batch_layout_edits
             /\ data' = data
             /\ layout' = layout
             /\ log' = <<>>
       /\ Positions(log', {"update", "animate"}) # {}
          => (op'.name = "batch_exit" /\ ctx' = <<>>)]_vars

\* C4 witness: a nested batch context has exited with edits pending
C4_Witness ==
    /\ op.name = "batch_exit"
    /\ ctx # <<>>
    /\ in_batch_mode
    /\ batch_trace_edits # <<>>
    /\ batch_layout_edits # <<>>

\* C5: add_traces while a batch is open raises, leaves both pending edit
\* collections empty, sends no message and leaves the lists of trace
\* objects, trace state and trace defaults as they were
C5_AddTracesFailsInBatch ==
    [][(op'.name = "add_traces" /\ in_batch_mode)
          => /\ err' = "ValueError: Traces may not be added in a batch context"
             /\ batch_trace_edits' = <<>>
             /\ batch_layout_edits' = <<>>
             /\ log' = <<>>
             /\ data_objs' = data_objs
             /\ data' = data
             /\ data_defaults' = data_defaults]_vars

\* C5 witness: add_traces has failed in an open batch
C5_Witness ==
    /\ op.name = "add_traces"
    /\ in_batch_mode
    /\ err = "ValueError: Traces may not be added in a batch context"
    /\ data_objs # <<>>

\* ------------------------------------------------------------------------
\* Properties of restyle, relayout and update requests
\* ------------------------------------------------------------------------

\* The restyle and relayout dicts and the trace_indexes of the request o
RestyleOf(o) ==
    IF o.name \in {"plotly_restyle", "plotly_update"} THEN o.restyle_data
    ELSE <<>>

RelayoutOf(o) ==
    IF o.name \in {"plotly_relayout", "plotly_update"} THEN o.relayout_data
    ELSE <<>>

\* The trace indexes that trace_indexes stands for on a figure of n traces:
\* all of them in order when omitted, the one trace for an int
Targeted(n, trace_indexes) ==
    IF trace_indexes = None THEN [j \in 1..n |-> j - 1]
    ELSE IF ~IsList(trace_indexes) THEN <<trace_indexes.v>>
    ELSE [j \in 1..Len(trace_indexes.v) |-> trace_indexes.v[j].v]

\* The value a request supplies for the trace at position i (from 0)
Supplied(v, i) == IF IsList(v) THEN v.v[(i % Len(v.v)) + 1] ELSE v

RECURSIVE ValueAt(_, _)
\* The value found in the state d by following the path, None when absent
ValueAt(d, path) ==
    IF path = <<>> THEN d
    ELSE IF IsDict(d) /\ Head(path) \in DOMAIN d.v
    THEN ValueAt(d.v[Head(path)], Tail(path))
    ELSE IF IsList(d) /\ IsIdx(Head(path)) /\ Head(path).i < Len(d.v)
    THEN ValueAt(d.v[Head(path).i + 1], Tail(path))
    ELSE None

\* C6 as stated: every change callback of a restyle, relayout or update call
\* has been invoked before the call's sync message is emitted
C6_CallbacksBeforeMessage ==
    op.name \in {"plotly_restyle", "plotly_relayout", "plotly_update"}
        => \A c \in Positions(log, {"callback"}) :
               \A m \in Positions(log, {"restyle", "relayout", "update"}) :
                   c < m

\* C7 as stated: a restyle, relayout or update call that returns and for
\* which every targeted value already equals the supplied value invokes no
\* callback, emits no message and leaves trace and layout state unchanged
C7_EmptyChangesetIsSilent ==
    [][(/\ op'.name \in {"plotly_restyle", "plotly_relayout", "plotly_update"}
        /\ err' = "none"
        /\ \A n \in 1..Len(RestyleOf(op')) :
               \A i \in 1..Len(Targeted(Len(data), op'.trace_indexes)) :
                   \/ Supplied(RestyleOf(op')[n].val, i - 1) = Undefined
                   \/ ValueAt(data[Targeted(Len(data), op'.trace_indexes)[i] + 1],
                              _str_to_dict_path(RestyleOf(op')[n].key))
                          = Supplied(RestyleOf(op')[n].val, i - 1)
        /\ \A n \in 1..Len(RelayoutOf(op')) :
               ValueAt(layout, _str_to_dict_path(RelayoutOf(op')[n].key))
                   = RelayoutOf(op')[n].val)
          => /\ log' = <<>>
             /\ data' = data
             /\ layout' = layout]_vars

\* The entry of the state dict d under the first name of the path: <<value>>,
\* or <<>> when there is none
Entry(d, path) ==
    IF Head(path) \in DOMAIN d.v THEN <<d.v[Head(path)]>> ELSE <<>>

\* C8 as stated: a plotly_restyle call with values that are not lists, when
\* it returns, has set each path to its value in every targeted trace, and
\* has emitted one restyle message with exactly the keys for which the state
\* of some targeted trace changed, each with the value supplied (no message
\* when no trace changed)
C8_RestyleMessageCarriesChangedKeys ==
    [][(/\ op'.name = "plotly_restyle"
        /\ err' = "none"
        /\ \A n \in 1..Len(op'.restyle_data) : ~IsList(op'.restyle_data[n].val))
          => LET Changed(targets, path) ==
                     \E i \in 1..Len(targets) :
                         Entry(data'[targets[i] + 1], path)
                             # Entry(data[targets[i] + 1], path)
                 ChangedKeys(targets) ==
                     {op'.restyle_data[n].key :
                         n \in {m \in 1..Len(op'.restyle_data) :
                                   Changed(targets,
                                           _str_to_dict_path(
                                               op'.restyle_data[m].key))}}
                 Carries(msgs, changed) ==
                     IF changed = {} THEN msgs = {}
                     ELSE /\ Cardinality(msgs) = 1
                          /\ \A m \in msgs :
                                 /\ KeySet(log'[m].restyle_data) = changed
                                 /\ \A k \in changed :
                                        Get(log'[m].restyle_data, k)
                                            = Get(op'.restyle_data, k)
                 Holds(targets) ==
                     /\ \A n \in 1..Len(op'.restyle_data) :
                            \A i \in 1..Len(targets) :
                                ValueAt(data'[targets[i] + 1],
                                        _str_to_dict_path(
                                            op'.restyle_data[n].key))
                                    = op'.restyle_data[n].val
                     /\ Carries(Positions(log', {"restyle"}),
                                ChangedKeys(targets))
             IN  Holds(Targeted(Len(data), op'.trace_indexes))]_vars

\* C9: a plotly_restyle call with valid trace indexes (all traces in order
\* when omitted, the one trace for an int) returns, and for a key with a
\* list value v each trace ends with the element v[i mod len(v)] of its last
\* position i in the targeted list, an Undefined element leaving the trace
\* as it was; a trace that is not targeted keeps its value
C9_ListValuesCycle ==
    [][(/\ op'.name = "plotly_restyle"
        /\ \A n \in 1..Len(op'.restyle_data) :
               op'.restyle_data[n].key \in {marker \o Period \o color, uid}
        /\ \A i \in 1..Len(Targeted(Len(data), op'.trace_indexes)) :
               Targeted(Len(data), op'.trace_indexes)[i] < Len(data))
          => LET Last(P) == CHOOSE i \in P : \A j \in P : j <= i
                 Expected(old, v, P) ==
                     IF P = {} THEN old ELSE Supplied(v, Last(P) - 1)
                 Cycles(targets, path, v) ==
                     \A t \in 0..(Len(data) - 1) :
                         ValueAt(data'[t + 1], path)
                             = Expected(ValueAt(data[t + 1], path), v,
                                        {i \in 1..Len(targets) :
                                            /\ targets[i] = t
                                            /\ Supplied(v, i - 1) # Undefined})
             IN  /\ err' = "none"
                 /\ Len(data') = Len(data)
                 /\ \A n \in 1..Len(op'.restyle_data) :
                        IsList(op'.restyle_data[n].val)
                            => Cycles(Targeted(Len(data), op'.trace_indexes),
                                      _str_to_dict_path(op'.restyle_data[n].key),
                                      op'.restyle_data[n].val)]_vars

\* C9 witness: a list of two colours was cycled over three traces, the third
\* trace, which had no colour, taking the first element again
C9_Witness ==
    /\ op.name = "plotly_restyle"
    /\ op.restyle_data = <<Item(marker \o Period \o color, List(<<Red, Blue>>))>>
    /\ op.trace_indexes = List(<<Num(0), Num(1), Num(2)>>)
    /\ err = "none"
    /\ ValueAt(op.before.data[3], <<Name(marker), Name(color)>>) = None
    /\ ValueAt(data[1], <<Name(marker), Name(color)>>) = Red
    /\ ValueAt(data[2], <<Name(marker), Name(color)>>) = Blue
    /\ ValueAt(data[3], <<Name(marker), Name(color)>>) = Red

RECURSIVE Resolves(_, _)
\* The path leads through the declared properties validators: each element
\* is a declared name, and only a compound property is followed by more
Resolves(validators, path) ==
    \/ path = <<>>
    \/ /\ IsName(Head(path))
       /\ Head(path).s \in DOMAIN validators
       /\ \/ Tail(path) = <<>>
          \/ /\ validators[Head(path).s].kind = "compound"
             /\ Resolves(validators[Head(path).s].props, Tail(path))

\* The path without one trailing integer segment
WithoutTrailingIndex(path) ==
    IF IsIdx(path[Len(path)]) THEN SubSeq(path, 1, Len(path) - 1) ELSE path

\* C10 as stated: plotly_restyle on valid trace indexes and plotly_relayout
\* fail with the invalid-property-path error when their first key, without
\* one trailing integer segment, does not resolve through the declared
\* properties, and do not fail with it when every key does
C10_InvalidPathIsRejected ==
    [][LET Rejects(validators, request) ==
               /\ ~Resolves(validators,
                            WithoutTrailingIndex(
                                _str_to_dict_path(request[1].key)))
                  => err' = "ValueError: Invalid property path"
               /\ (\A n \in 1..Len(request) :
                       Resolves(validators,
                                WithoutTrailingIndex(
                                    _str_to_dict_path(request[n].key))))
                  => err' # "ValueError: Invalid property path"
       IN  /\ (/\ op'.name = "plotly_restyle"
               /\ Targeted(Len(data), op'.trace_indexes) # <<>>
               /\ \A i \in 1..Len(Targeted(Len(data), op'.trace_indexes)) :
                      Targeted(Len(data), op'.trace_indexes)[i] < Len(data))
              => Rejects(TraceValidators, op'.restyle_data)
           /\ op'.name = "plotly_relayout"
              => Rejects(LayoutValidators, op'.relayout_data)]_vars

\* ------------------------------------------------------------------------
\* Properties of plotly_update
\* ------------------------------------------------------------------------

\* Every key of the request resolves through the declared properties
AllResolve(validators, request) ==
    \A n \in 1..Len(request) :
        Resolves(validators,
                 WithoutTrailingIndex(_str_to_dict_path(request[n].key)))

\* The items of a relayout request whose value at the path differs between
\* the layout states before and after
ChangedItems(request, before, after) ==
    {request[n] : n \in {m \in 1..Len(request) :
                            ValueAt(before, _str_to_dict_path(request[m].key))
                                # ValueAt(after,
                                          _str_to_dict_path(request[m].key))}}

\* The items of a restyle request whose value at the path differs, for some
\* targeted trace, between the trace states before and after
ChangedTraceItems(request, targets, before, after) ==
    {request[n] : n \in {m \in 1..Len(request) :
                            \E i \in 1..Len(targets) :
                                ValueAt(before[targets[i] + 1],
                                        _str_to_dict_path(request[m].key))
                                    # ValueAt(after[targets[i] + 1],
                                              _str_to_dict_path(
                                                  request[m].key))}}

\* The items of an ordered dict, as a set
ItemSet(od) == {od[j] : j \in 1..Len(od)}

\* C11: plotly_update emits no restyle and no relayout message and at most
\* one update message; when it returns, the update message is emitted if and
\* only if the value at some path changed in the layout or in a targeted
\* trace, and it carries exactly the changed relayout items and the changed
\* restyle items; the layout edits are applied before the trace edits: a key
\* that fails in the layout edits leaves the traces untouched, a key that
\* fails in the trace edits finds the layout edits applied
C11_UpdateSendsOneMessage ==
    [][op'.name = "plotly_update"
          => LET Carries(msgs, restyle_changes, relayout_changes) ==
                     /\ msgs # {}
                        <=> (restyle_changes # {} \/ relayout_changes # {})
                     /\ \A m \in msgs :
                            /\ ItemSet(log'[m].restyle_data) = restyle_changes
                            /\ ItemSet(log'[m].relayout_data)
                                   = relayout_changes
             IN  /\ Positions(log', {"restyle", "relayout"}) = {}
                 /\ Cardinality(Positions(log', {"update"})) <= 1
                 /\ err' = "none"
                    => Carries(Positions(log', {"update"}),
                               ChangedTraceItems(
                                   op'.restyle_data,
                                   Targeted(Len(data), op'.trace_indexes),
                                   data, data'),
                               ChangedItems(op'.relayout_data, layout, layout'))
                 /\ ~AllResolve(LayoutValidators, op'.relayout_data)
                    => (err' # "none" /\ data' = data /\ log' = <<>>)
                 /\ (/\ AllResolve(LayoutValidators, op'.relayout_data)
                     /\ ~AllResolve(TraceValidators, op'.restyle_data))
                    => /\ err' # "none"
                       /\ log' = <<>>
                       /\ \A n \in 1..Len(op'.relayout_data) :
                              ValueAt(layout',
                                      _str_to_dict_path(
                                          op'.relayout_data[n].key))
                                  = op'.relayout_data[n].val]_vars

\* C11 witness: a plotly_update changed a trace and the layout and sent one
\* update message with both changesets
C11_Witness ==
    /\ op.name = "plotly_update"
    /\ err = "none"
    /\ Len(log) >= 1
    /\ log[1].ev = "update"
    /\ log[1].restyle_data # <<>>
    /\ log[1].relayout_data # <<>>
    /\ Positions(log, {"update"}) = {1}

\* C11 witness of the order: the trace edits failed after the layout edits
\* had changed the layout
C11_WitnessOrder ==
    /\ op.name = "plotly_update"
    /\ err = "ValueError: Invalid property path"
    /\ layout # op.before.layout

\* ------------------------------------------------------------------------
\* Properties of the trace collection and the layout
\* ------------------------------------------------------------------------

\* The figure's variables, without the record of the last operation
figure_vars ==
    <<data_objs, data, data_defaults, layout_obj, layout, layout_defaults,
      parent, orphan_props, in_batch_mode, batch_trace_edits,
      batch_layout_edits, change_callbacks>>

\* The property values of the trace object o: its orphan map when it has no
\* parent, its state map when it is in the collection
OwnProps(o) ==
    IF parent[o] = "none" THEN orphan_props[o]
    ELSE IF _index_is(data_objs, o) >= 0 /\ _index_is(data_objs, o) < Len(data)
    THEN data[_index_is(data_objs, o) + 1]
    ELSE EmptyDict

\* The uid of the trace object o, None when it has none
OwnUid(o) == IF Name(uid) \in DOMAIN OwnProps(o).v THEN OwnProps(o).v[Name(uid)] ELSE None

\* The uids of the traces of the collection
CurrentUids == {OwnUid(data_objs[j]) : j \in 1..Len(data_objs)}

\* The value is no list, or has an element that is no trace, a trace whose
\* uid no current trace has, or two elements with the same uid
BadData(new_data) ==
    \/ ~IsList(new_data)
    \/ \E j \in 1..Len(new_data.v) : new_data.v[j] \notin TraceObjs
    \/ \E j \in 1..Len(new_data.v) : OwnUid(new_data.v[j]) \notin CurrentUids
    \/ \E j, m \in 1..Len(new_data.v) :
           j # m /\ OwnUid(new_data.v[j]) = OwnUid(new_data.v[m])

\* C12: assigning to figure.data a value that is no list, or that holds a
\* non-trace element, a trace whose uid is not among the current uids, or two
\* elements with one uid, fails and leaves the figure unchanged, without any
\* delete or move message
C12_BadDataIsRejected ==
    [][op'.name = "data" /\ BadData(op'.new_data)
           => err' # "none" /\ log' = <<>> /\ UNCHANGED figure_vars]_vars

\* A repeated trace and a trace outside the figure were assigned to a figure
\* with traces, and a value that is no list
C12_Witness ==
    /\ op.name = "data"
    /\ data_objs # <<>>
    /\ err = "ValueError: Received duplicated traces"
    /\ BadData(op.new_data)

\* The value is a list of the current trace objects, each one once
IsPermutation(new_data) ==
    /\ IsList(new_data)
    /\ Len(new_data.v) = Len(data_objs)
    /\ \A j \in 1..Len(data_objs) :
           Cardinality({m \in 1..Len(new_data.v) :
                           new_data.v[m] = data_objs[j]}) = 1

\* The move message of the permutation: the current indexes and, for each,
\* the new index of the trace now there
MoveMessage(new_data) ==
    [ev |-> "moveTraces",
     current_inds |-> PyList([j \in 1..Len(data_objs) |-> j - 1]),
     new_inds |-> PyList([j \in 1..Len(data_objs) |->
                             _index_is(new_data.v, data_objs[j])])]

\* C13: assigning a permutation of the current traces to figure.data emits
\* the move message if and only if the permutation is not the identity;
\* afterwards the state map at each index is the one of the trace object now
\* there, and every trace's property values are what they were
C13_PermutationMovesTraces ==
    [][op'.name = "data" /\ IsPermutation(op'.new_data)
           => /\ err' = "none"
              /\ log' = IF op'.new_data.v # data_objs
                        THEN <<MoveMessage(op'.new_data)>> ELSE <<>>
              /\ data_objs' = op'.new_data.v
              /\ Len(data') = Len(data_objs)
              /\ \A j \in 1..Len(data_objs) :
                     data'[j] = data[_index_is(data_objs, data_objs'[j]) + 1]
              /\ \A o \in TraceObjs :
                     _index_is(data_objs, o) >= 0
                         => OwnProps(o)' = OwnProps(o)]_vars

\* C13 for figures whose traces have distinct uids and the figure as parent
C13_DistinctUids ==
    [][(/\ \A j, m \in 1..Len(data_objs) :
               j # m => OwnUid(data_objs[j]) # OwnUid(data_objs[m])
        /\ \A j \in 1..Len(data_objs) : parent[data_objs[j]] = "fig"
        /\ op'.name = "data" /\ IsPermutation(op'.new_data))
           => /\ err' = "none"
              /\ log' = IF op'.new_data.v # data_objs
                        THEN <<MoveMessage(op'.new_data)>> ELSE <<>>
              /\ data_objs' = op'.new_data.v
              /\ Len(data') = Len(data_objs)
              /\ \A j \in 1..Len(data_objs) :
                     data'[j] = data[_index_is(data_objs, data_objs'[j]) + 1]
              /\ \A o \in TraceObjs :
                     _index_is(data_objs, o) >= 0
                         => OwnProps(o)' = OwnProps(o)]_vars

\* The value is a list of current trace objects, each at most once, that
\* omits some of them
OmitsTraces(new_data) ==
    /\ IsList(new_data)
    /\ \A j \in 1..Len(new_data.v) :
           /\ _index_is(data_objs, new_data.v[j]) >= 0
           /\ \A m \in 1..Len(new_data.v) :
                  new_data.v[m] = new_data.v[j] => m = j
    /\ \E j \in 1..Len(data_objs) : _index_is(new_data.v, data_objs[j]) < 0

\* The positions (from 1) of the current traces that the list omits
Omitted(new_data) ==
    {j \in 1..Len(data_objs) : _index_is(new_data.v, data_objs[j]) < 0}

\* The delete message for the positions S
DeleteMessage(S) ==
    [ev |-> "deleteTraces",
     delete_inds |-> PyList([n \in 1..Cardinality(S) |-> SortedInts(S)[n] - 1])]

\* C14: assigning to figure.data a list that omits current traces detaches
\* each omitted trace with its property values as orphan map, removes its
\* state map and its defaults map, and emits exactly one delete message with
\* the omitted traces' original indexes in ascending order
C14_OmittedTracesAreDetached ==
    [][op'.name = "data" /\ OmitsTraces(op'.new_data)
           => /\ err' = "none"
              /\ \A j \in Omitted(op'.new_data) :
                     /\ parent'[data_objs[j]] = "none"
                     /\ orphan_props'[data_objs[j]] = OwnProps(data_objs[j])
              /\ Len(data') = Len(op'.new_data.v)
              /\ Len(data_defaults') = Len(op'.new_data.v)
              /\ \A j \in 1..Len(data') :
                     \E m \in 1..Len(data) \ Omitted(op'.new_data) :
                         data'[j] = data[m] /\ data_objs'[j] = data_objs[m]
              /\ Positions(log', {"deleteTraces"}) # {}
              /\ \A n \in Positions(log', {"deleteTraces"}) :
                     /\ log'[n] = DeleteMessage(Omitted(op'.new_data))
                     /\ Positions(log', {"deleteTraces"}) = {n}]_vars

\* C14 for figures whose traces have distinct uids and the figure as parent
C14_DistinctUids ==
    [][(/\ \A j, m \in 1..Len(data_objs) :
               j # m => OwnUid(data_objs[j]) # OwnUid(data_objs[m])
        /\ \A j \in 1..Len(data_objs) : parent[data_objs[j]] = "fig"
        /\ op'.name = "data" /\ OmitsTraces(op'.new_data))
           => /\ err' = "none"
              /\ \A j \in Omitted(op'.new_data) :
                     /\ parent'[data_objs[j]] = "none"
                     /\ orphan_props'[data_objs[j]] = OwnProps(data_objs[j])
              /\ Len(data') = Len(op'.new_data.v)
              /\ Len(data_defaults') = Len(op'.new_data.v)
              /\ \A j \in 1..Len(data') :
                     \E m \in 1..Len(data) \ Omitted(op'.new_data) :
                         data'[j] = data[m] /\ data_objs'[j] = data_objs[m]
              /\ Positions(log', {"deleteTraces"}) # {}
              /\ \A n \in Positions(log', {"deleteTraces"}) :
                     /\ log'[n] = DeleteMessage(Omitted(op'.new_data))
                     /\ Positions(log', {"deleteTraces"}) = {n}]_vars

\* C15: no two traces of the figure's trace collection have the same uid
C15_UidsAreUnique ==
    \A j, m \in 1..Len(data_objs) :
        j # m => OwnUid(data_objs[j]) # OwnUid(data_objs[m])

\* Every trace object of the collection and the layout object have the
\* figure as parent and an empty orphan map
AllAttached ==
    \A o \in {data_objs[j] : j \in 1..Len(data_objs)} \cup {layout_obj} :
        parent[o] = "fig" /\ orphan_props[o] = EmptyDict

\* C16: the trace objects of the collection and the layout object have the
\* figure as parent and an empty orphan map after construction, and
\* add_traces, data assignment and layout assignment keep it so
C16_CollectionIsAttached ==
    [][AllAttached /\ op'.name \in {"add_traces", "data", "layout"}
           => AllAttached']_vars

\* C17: assigning figure.layout detaches the old layout object with its
\* values as orphan map, attaches the new one with an empty orphan map, makes
\* the new layout's content the layout state and emits exactly one relayout
\* message with that content
C17_LayoutAssignmentReplaces ==
    [][op'.name = "layout"
           => /\ err' = "none"
              /\ parent'[layout_obj] = "none"
              /\ orphan_props'[layout_obj] = layout
              /\ layout_obj' = op'.new_layout
              /\ parent'[layout_obj'] = "fig"
              /\ orphan_props'[layout_obj'] = EmptyDict
              /\ layout' = orphan_props[op'.new_layout]
              /\ log' = <<[ev |-> "relayout", relayout_data |-> layout']>>]_vars

\* A layout with a title was replaced by the layout it had replaced before
C17_Witness ==
    /\ op.name = "layout"
    /\ layout_obj = "layout_1"
    /\ orphan_props["layout_2"] # EmptyDict
    /\ parent["layout_2"] = "none"
    /\ log # <<>>

\* C18: add_traces outside a batch appends the new traces in input order to
\* the trace objects, a copy of each one's property map to the states and an
\* empty map to the defaults, keeps the existing traces and their states,
\* parents the new traces to the figure and emits exactly one add-traces
\* message with the new states
C18_AddTracesAppends ==
    [][op'.name = "add_traces" /\ ~in_batch_mode
           => /\ err' = "none"
              /\ data_objs' = data_objs \o op'.data
              /\ data' = data \o [j \in 1..Len(op'.data) |-> OwnProps(op'.data[j])]
              /\ data_defaults'
                     = data_defaults \o [j \in 1..Len(op'.data) |-> EmptyDict]
              /\ \A j \in 1..Len(op'.data) : parent'[op'.data[j]] = "fig"
              /\ log' = <<[ev |-> "addTraces",
                           new_traces_data |->
                               [j \in 1..Len(op'.data) |->
                                   OwnProps(op'.data[j])]]>>]_vars

\* Two traces, one with a marker, were added to a figure that had a trace
C18_Witness ==
    /\ op.name = "add_traces"
    /\ Len(op.data) = 2
    /\ Len(data_objs) = 3
    /\ \E j \in 2..3 : Name(marker) \in DOMAIN data[j].v
    /\ err = "none"

\* ------------------------------------------------------------------------
\* Properties of _set_in
\* ------------------------------------------------------------------------

\* C19: when _set_in is applied twice in a row to one map with the same path
\* and the same value, which is neither None nor Undefined, the second call
\* returns false and leaves the map unchanged
C19_SecondSetInChangesNothing ==
    [][(/\ op'.name = "_set_in" /\ op'.repeated
        /\ op'.v \notin {None, Undefined}
        /\ err = "none" /\ err' = "none")
           => ~op'.val_changed /\ layout' = layout]_vars

\* C19 for values that hold no float('nan')
C19_WithoutNaN ==
    [][(/\ op'.name = "_set_in" /\ op'.repeated
        /\ op'.v = Str(<<"r">>)
        /\ err = "none")
           => err' = "none" /\ ~op'.val_changed /\ layout' = layout]_vars

\* C20: _set_in with Undefined as value returns false and leaves the map as
\* it was
C20_UndefinedIsNoOp ==
    [][op'.name = "_set_in" /\ op'.v = Undefined
           => ~op'.val_changed /\ layout' = layout]_vars

\* C21: for a value that is not Undefined, _set_in returns true if and only
\* if the map after the call differs from the map before the call
C21_ChangedIffMapDiffers ==
    [][op'.name = "_set_in" /\ op'.v # Undefined /\ err' = "none"
           => (op'.val_changed <=> layout' # layout)]_vars

\* C21 for paths of one element and values that hold no float('nan')
C21_OneElementPaths ==
    [][op'.name = "_set_in" /\ op'.v \in {Str(<<"r">>), None}
           /\ op'.key_path_str = title /\ err' = "none"
           => (op'.val_changed <=> layout' # layout)]_vars

\* ------------------------------------------------------------------------
\* Properties of property writes
\* ------------------------------------------------------------------------

\* The value stored for the property prop of a node of the figure, None when
\* there is none
StoredValue(node, prop) ==
    ValueAt(IF node.root \in TraceObjs
            THEN data[_index_is(data_objs, node.root) + 1] ELSE layout,
            [j \in 1..Len(node.path) |-> Name(node.path[j])] \o <<Name(prop)>>)

\* C22: a write of Undefined to a simple property, and outside a batch a
\* write of the value that is stored, leaves the figure unchanged, records no
\* pending edit, emits no message and invokes no change callback
C22_UnchangedWriteIsSilent ==
    [][(/\ op'.name = "set_prop"
        /\ \/ op'.val = Undefined
           \/ /\ ~in_batch_mode
              /\ op'.val # None
              /\ StoredValue(op'.node, op'.prop) = op'.val)
           => err' = "none" /\ log' = <<>> /\ UNCHANGED figure_vars]_vars

\* The stored colour was written again to the marker of the trace that has a
\* callback on it, outside a batch
C22_Witness ==
    /\ op.name = "set_prop"
    /\ op.val = Red
    /\ op.node = Node("trace_a", <<marker>>)
    /\ StoredValue(op.node, op.prop) = Red
    /\ ~in_batch_mode
    /\ change_callbacks # <<>>
    /\ log = <<>>

\* Undefined was written inside a batch
C22_WitnessUndefined ==
    /\ op.name = "set_prop"
    /\ op.val = Undefined
    /\ in_batch_mode
    /\ ctx # <<>>

\* ------------------------------------------------------------------------
\* Properties of change callbacks
\* ------------------------------------------------------------------------

\* The path a is a prefix of the path b
IsPrefix(a, b) == Len(a) <= Len(b) /\ SubSeq(b, 1, Len(a)) = a

\* The key path tuples of the request whose value differs between the state
\* dicts before and after
ChangedPaths(request, before, after) ==
    {_str_to_dict_path(request[n].key) :
        n \in {m \in 1..Len(request) :
                  ValueAt(before, _str_to_dict_path(request[m].key))
                      # ValueAt(after, _str_to_dict_path(request[m].key))}}

\* The paths, from the root object, that a registration on the node watches
WatchedPaths(node, prop_path_tuples) ==
    {[j \in 1..Len(node.path) |-> Name(node.path[j])] \o prop_path_tuples[n] :
        n \in 1..Len(prop_path_tuples)}

\* The invocations of the callback on the node, as positions in the log l
Invocations(l, node, callback) ==
    {p \in Positions(l, {"callback"}) :
        l[p].node = node /\ l[p].callback = callback}

\* C23 as stated: a restyle, relayout or update call that returns invokes
\* each registered change callback exactly once when the value at a watched
\* path, or at a path beneath one, changed in the call, however many of them
\* changed
C23_CallbackOncePerOperation ==
    [][(/\ op'.name \in {"plotly_restyle", "plotly_relayout", "plotly_update"}
        /\ err' = "none")
          => \A node \in DOMAIN change_callbacks :
                 \A n \in 1..Len(change_callbacks[node]) :
                     \A c \in 1..Len(change_callbacks[node][n].val) :
                         LET Once(changed, watched) ==
                                 Cardinality(Invocations(
                                     log', node,
                                     change_callbacks[node][n].val[c]))
                                     = 1
                                     \/ ~\E k \in changed : \E w \in watched :
                                             IsPrefix(w, k)
                             j == _index_is(data_objs, node.root) + 1
                         IN  Once(IF node.root = layout_obj
                                  THEN ChangedPaths(RelayoutOf(op'), layout,
                                                    layout')
                                  ELSE ChangedPaths(RestyleOf(op'), data[j],
                                                    data'[j]),
                                  WatchedPaths(node,
                                               change_callbacks[node][n].key))
       ]_vars

\* The call o on a figure of n traces names no trace more than once
NamesNoTraceTwice(o, n) ==
    o.name = "plotly_relayout"
        \/ \A a, b \in 1..Len(Targeted(n, o.trace_indexes)) :
               Targeted(n, o.trace_indexes)[a] = Targeted(n, o.trace_indexes)[b]
                   => a = b

\* C23 on calls that name no trace twice
C23_DistinctTraceIndexes ==
    [][(/\ op'.name \in {"plotly_restyle", "plotly_relayout", "plotly_update"}
        /\ err' = "none"
        /\ NamesNoTraceTwice(op', Len(data)))
          => \A node \in DOMAIN change_callbacks :
                 \A n \in 1..Len(change_callbacks[node]) :
                     \A c \in 1..Len(change_callbacks[node][n].val) :
                         LET Once(changed, watched) ==
                                 Cardinality(Invocations(
                                     log', node,
                                     change_callbacks[node][n].val[c]))
                                     = 1
                                     \/ ~\E k \in changed : \E w \in watched :
                                             IsPrefix(w, k)
                             j == _index_is(data_objs, node.root) + 1
                         IN  Once(IF node.root = layout_obj
                                  THEN ChangedPaths(RelayoutOf(op'), layout,
                                                    layout')
                                  ELSE ChangedPaths(RestyleOf(op'), data[j],
                                                    data'[j]),
                                  WatchedPaths(node,
                                               change_callbacks[node][n].key))
       ]_vars

\* ------------------------------------------------------------------------
\* Properties of to_dict
\* ------------------------------------------------------------------------

RECURSIVE KeyPaths(_)
\* The paths of the keys that the value d holds at any depth
KeyPaths(d) ==
    IF IsDict(d)
    THEN UNION {{<<k>>} \cup {<<k>> \o p : p \in KeyPaths(d.v[k])} :
                   k \in DOMAIN d.v}
    ELSE IF IsList(d)
    THEN UNION {{<<Idx(j - 1)>> \o p : p \in KeyPaths(d.v[j])} :
                   j \in 1..Len(d.v)}
    ELSE {}

\* The key path tuples that the request sets to a value, given the positions
\* at which its list values are read
SetPaths(request, positions) ==
    {_str_to_dict_path(request[n].key) :
        n \in {m \in 1..Len(request) :
                  \E i \in positions :
                      Supplied(request[m].val, i) \notin {None, Undefined}}}

\* C24 as stated: after a restyle, relayout or update call, every key that
\* to_dict holds at any depth was there before the call or lies on a path
\* that the call set to a value
C24_ToDictHoldsOnlySetKeys ==
    op.name \in {"plotly_restyle", "plotly_relayout", "plotly_update"}
        => LET Explained(after, before, set_paths) ==
                   \A p \in KeyPaths(after) :
                       \/ p \in KeyPaths(before)
                       \/ \E k \in set_paths : IsPrefix(p, k)
               targets == IF op.name = "plotly_relayout" THEN <<>>
                          ELSE Targeted(Len(data), op.trace_indexes)
           IN  /\ Explained(to_dict(Fig).layout, to_dict(op.before).layout,
                            SetPaths(RelayoutOf(op), {0}))
               /\ \A j \in 1..Len(data) :
                      Explained(to_dict(Fig).data[j], to_dict(op.before).data[j],
                                SetPaths(RestyleOf(op),
                                         {i \in 0..(Len(targets) - 1) :
                                             targets[i + 1] = j - 1}))

\* C24 on calls that supply no None
C24_WithoutNone ==
    (/\ op.name \in {"plotly_restyle", "plotly_relayout", "plotly_update"}
     /\ \A n \in 1..Len(RestyleOf(op)) :
            /\ RestyleOf(op)[n].val # None
            /\ IsList(RestyleOf(op)[n].val)
                   => \A e \in 1..Len(RestyleOf(op)[n].val.v) :
                          RestyleOf(op)[n].val.v[e] \notin {None, Undefined}
     /\ \A n \in 1..Len(RelayoutOf(op)) : RelayoutOf(op)[n].val # None)
        => LET Explained(after, before, set_paths) ==
                   \A p \in KeyPaths(after) :
                       \/ p \in KeyPaths(before)
                       \/ \E k \in set_paths : IsPrefix(p, k)
               targets == IF op.name = "plotly_relayout" THEN <<>>
                          ELSE Targeted(Len(data), op.trace_indexes)
           IN  /\ Explained(to_dict(Fig).layout, to_dict(op.before).layout,
                            SetPaths(RelayoutOf(op), {0}))
               /\ \A j \in 1..Len(data) :
                      Explained(to_dict(Fig).data[j], to_dict(op.before).data[j],
                                SetPaths(RestyleOf(op),
                                         {i \in 0..(Len(targets) - 1) :
                                             targets[i + 1] = j - 1}))

\* ------------------------------------------------------------------------
\* Key path strings
\* ------------------------------------------------------------------------

\* The longest path and the largest index of the paths that are serialized
MaxPathLen == 3

MaxPathIndex == 11

\* The field names of the paths: none of them reads as an integer
PathNames == {<<"a">>, <<"a", "1">>, <<"1", "a">>}

\* The indexes of the paths: one and two digits
PathIndexes == {0, 2, MaxPathIndex}

RECURSIVE IntStr(_)
\* str(n) for a non-negative int
IntStr(n) ==
    LET digit(m) == CHOOSE c \in DigitChars : DigitVal(c) = m
    IN  IF n < 10 THEN <<digit(n)>>
        ELSE IntStr(n \div 10) \o <<digit(n % 10)>>

\* The paths of one to MaxPathLen field names and indexes
Paths ==
    UNION {[1..n -> {Name(s) : s \in PathNames}
                        \cup {Idx(i) : i \in PathIndexes}] :
              n \in 1..MaxPathLen}

RECURSIVE Serialized(_)
\* The serialized form of a path: names joined with '.', indexes in brackets
Serialized(p) ==
    LET Last(el) ==
            IF IsIdx(el) THEN <<"[">> \o IntStr(el.i) \o <<"]">>
            ELSE IF Len(p) = 1 THEN el.s
            ELSE Period \o el.s
    IN  IF p = <<>> THEN <<>>
        ELSE Serialized(SubSeq(p, 1, Len(p) - 1)) \o Last(p[Len(p)])

RECURSIVE DottedForm(_)
\* The form that _prop_set_child produces, '{child_name}.{child_ind}.{prop}':
\* names and indexes joined with '.'
DottedForm(p) ==
    LET Last(el) ==
            (IF Len(p) = 1 THEN <<>> ELSE Period)
                \o (IF IsIdx(el) THEN IntStr(el.i) ELSE el.s)
    IN  IF p = <<>> THEN <<>>
        ELSE DottedForm(SubSeq(p, 1, Len(p) - 1)) \o Last(p[Len(p)])

InitPaths ==
    /\ Is(EmptyFigure)
    /\ ctx = <<>>
    /\ op = [name |-> "init"]

\* BaseFigure._str_to_dict_path(key_path_str)
StrToDictPath(key_path_str) ==
    /\ op.name = "init"
    /\ op' = [name |-> "_str_to_dict_path", key_path_str |-> key_path_str,
              key_path |-> _str_to_dict_path(key_path_str)]
    /\ UNCHANGED <<figure_vars, ctx, log, err>>

\* The strings parsed are the serialized forms and the dotted forms of the
\* paths
NextPaths ==
    \/ \E p \in Paths : StrToDictPath(Serialized(p))
    \/ \E p \in Paths : StrToDictPath(DottedForm(p))

SpecPaths == InitPaths /\ [][NextPaths]_vars

\* ------------------------------------------------------------------------
\* Properties of key path strings
\* ------------------------------------------------------------------------

\* C25 as stated: _str_to_dict_path gives back every path from its
\* serialized form, and parses the dotted form of a path to what it parses
\* the serialized form to
C25_ParseInvertsSerialize ==
    op.name = "_str_to_dict_path"
        => \A p \in Paths :
               /\ op.key_path_str = Serialized(p) => op.key_path = p
               /\ op.key_path_str = DottedForm(p)
                      => op.key_path = _str_to_dict_path(Serialized(p))

\* Every index of the path follows a field name
IndexesFollowNames(p) ==
    \A j \in 1..Len(p) : IsIdx(p[j]) => (j > 1 /\ IsName(p[j - 1]))

\* C25 on the paths in which every index follows a field name
C25_IndexesAfterNames ==
    op.name = "_str_to_dict_path"
        => \A p \in Paths :
               IndexesFollowNames(p)
                   => /\ op.key_path_str = Serialized(p) => op.key_path = p
                      /\ op.key_path_str = DottedForm(p)
                             => op.key_path = _str_to_dict_path(Serialized(p))

\* ------------------------------------------------------------------------
\* Item reads, item writes, membership tests and update on nodes
\* ------------------------------------------------------------------------

\* The paths given to the layout: the title, the x axis and its range by the
\* bare name, by the name with the suffix 1 and by the name with the suffix 2
LayoutPaths ==
    {title, xaxis, xaxis \o <<"1">>, xaxis \o Period \o range,
     xaxis \o <<"1">> \o Period \o range, xaxis \o <<"2">> \o Period \o range,
     xaxis \o <<"1">> \o Period \o title}

\* The paths written: those that do not end in a compound property
WrittenPaths == LayoutPaths \ {xaxis, xaxis \o <<"1">>}

\* Figures of one or two traces whose layout has nothing, a title, an empty
\* x axis or an x axis with a range
InitLayoutItems ==
    /\ \E n \in 1..2,
          layout_props \in {EmptyDict, Dict((Name(title) :> Red)),
                            Dict((Name(xaxis) :> EmptyDict)),
                            Dict((Name(xaxis) :>
                                      Dict((Name(range) :> Red))))} :
           Is(Constructed(n, {}, layout_props))
    /\ ctx = <<>>
    /\ op = [name |-> "init"]

\* fig.layout[prop]
GetItem(prop) ==
    /\ op.name = "init"
    /\ op' = [name |-> "__getitem__", prop |-> prop,
              result |-> __getitem__(Fig, Node(layout_obj, <<>>),
                                     _str_to_dict_path(prop))]
    /\ UNCHANGED <<figure_vars, ctx, log, err>>

\* prop in fig.layout
Contains(prop) ==
    /\ op.name = "init"
    /\ op' = [name |-> "__contains__", prop |-> prop,
              result |-> __contains__(Fig, Node(layout_obj, <<>>),
                                      _str_to_dict_path(prop))]
    /\ UNCHANGED <<figure_vars, ctx, log, err>>

\* fig.layout[prop] = value
SetItem(prop, value) ==
    /\ op.name = "init"
    /\ Becomes(__setitem__(Fig, Node(layout_obj, <<>>),
                           _str_to_dict_path(prop), value))
    /\ op' = [name |-> "__setitem__", prop |-> prop, value |-> value,
              before |-> Fig]
    /\ UNCHANGED ctx

\* The dicts given to update: declared and undeclared names, in both orders,
\* and dicts for the compound property of the node
UpdateDicts ==
    {UpdateDict(items) :
        items \in {<<Item(title, Blue)>>,
                   <<Item(title, Blue), Item(color, Red)>>,
                   <<Item(color, Red), Item(title, Blue)>>,
                   <<Item(color, Red), Item(title, Blue), Item(range, Red)>>,
                   <<Item(uid, Blue), Item(title, Blue)>>,
                   <<Item(title, Blue),
                     Item(xaxis, UpdateDict(<<Item(range, Blue)>>))>>,
                   <<Item(title, Blue),
                     Item(xaxis, UpdateDict(<<Item(range, Blue),
                                              Item(color, Red)>>))>>,
                   <<Item(uid, Blue),
                     Item(marker, UpdateDict(<<Item(color, Blue)>>))>>,
                   <<Item(marker, None), Item(xaxis, None)>>}}

\* node.update(dict1) on the layout or on the first trace
Update(node, dict1) ==
    /\ op.name = "init"
    /\ Becomes(update(Fig, node, dict1))
    /\ op' = [name |-> "update", node |-> node, dict1 |-> dict1,
              before |-> Fig]
    /\ UNCHANGED ctx

NextLayoutItems ==
    \/ \E prop \in LayoutPaths : GetItem(prop)
    \/ \E prop \in LayoutPaths : Contains(prop)
    \/ \E prop \in WrittenPaths, value \in {Red, Blue, None} :
           SetItem(prop, value)
    \/ \E node \in {Node(layout_obj, <<>>), Node(data_objs[1], <<>>)},
          dict1 \in UpdateDicts :
           Update(node, dict1)

SpecLayoutItems == InitLayoutItems /\ [][NextLayoutItems]_vars

\* ------------------------------------------------------------------------
\* Properties of subplot names
\* ------------------------------------------------------------------------

\* The path with the suffix 1 after its first segment, a subplot base name
WithSuffix1(path) ==
    LET base == CHOOSE b \in _subplotid_prop_names :
                    Len(b) <= Len(path) /\ SubSeq(path, 1, Len(b)) = b
    IN  base \o <<"1">> \o SubSeq(path, Len(base) + 1, Len(path))

\* C26 as stated: a read, a membership test and a write on the layout given
\* 'xaxis1' or 'xaxis1.range' do what they do given 'xaxis' or 'xaxis.range',
\* and the layout state has no entry named 'xaxis1'
C26_Suffix1IsTheBareName ==
    /\ Name(xaxis \o <<"1">>) \notin DOMAIN layout.v
    /\ \A path \in {xaxis, xaxis \o Period \o range} :
           /\ (op.name = "__getitem__" /\ op.prop = WithSuffix1(path))
                  => op.result = __getitem__(Fig, Node(layout_obj, <<>>),
                                             _str_to_dict_path(path))
           /\ (op.name = "__contains__" /\ op.prop = WithSuffix1(path))
                  => op.result = __contains__(Fig, Node(layout_obj, <<>>),
                                              _str_to_dict_path(path))
           /\ (op.name = "__setitem__" /\ op.prop = WithSuffix1(path))
                  => Is(__setitem__(op.before, Node(layout_obj, <<>>),
                                    _str_to_dict_path(path), op.value))

\* C26 without the membership test of a nested path
C26_ExceptNestedContains ==
    /\ Name(xaxis \o <<"1">>) \notin DOMAIN layout.v
    /\ \A path \in {xaxis, xaxis \o Period \o range} :
           /\ (op.name = "__getitem__" /\ op.prop = WithSuffix1(path))
                  => op.result = __getitem__(Fig, Node(layout_obj, <<>>),
                                             _str_to_dict_path(path))
           /\ (/\ op.name = "__contains__"
               /\ op.prop = WithSuffix1(path)
               /\ path = xaxis)
                  => op.result = __contains__(Fig, Node(layout_obj, <<>>),
                                              _str_to_dict_path(path))
           /\ (op.name = "__setitem__" /\ op.prop = WithSuffix1(path))
                  => Is(__setitem__(op.before, Node(layout_obj, <<>>),
                                    _str_to_dict_path(path), op.value))

\* ------------------------------------------------------------------------
\* Properties of update
\* ------------------------------------------------------------------------

\* The keys of the dict that the node does not declare, in the dict's order
UnknownKeys(node, dict1) ==
    SelectSeq([n \in 1..Len(dict1.v) |-> dict1.v[n].key],
              LAMBDA k : k \notin DOMAIN _validators(node))

\* C27: update with a dict that holds keys the node does not declare raises
\* one ValueError whose message lists every such key of the dict; no key of
\* the dict has been applied: the figure is as it was before the call, no
\* message has been sent and no callback invoked
C27_UnknownKeysFailUpdate ==
    (op.name = "update" /\ UnknownKeys(op.node, op.dict1) # <<>>)
        => /\ err = "ValueError: Invalid property specified"
           /\ Len(log) = 1
           /\ log[1].ev = "raise"
           /\ log[1].invalid_props = UnknownKeys(op.node, op.dict1)
           /\ Is([op.before EXCEPT !.err = err, !.log = log])

\* C27 witness: an update of the layout with a new title between two keys the
\* layout does not declare has failed
C27_Witness ==
    /\ op.name = "update"
    /\ op.node = Node(layout_obj, <<>>)
    /\ op.dict1 = UpdateDict(<<Item(color, Red), Item(title, Blue),
                               Item(range, Red)>>)
    /\ err = "ValueError: Invalid property specified"
    /\ log[1].invalid_props = <<color, range>>
    /\ ValueAt(layout, <<Name(title)>>) # Blue

\* ------------------------------------------------------------------------
\* Properties of batch_animate
\* ------------------------------------------------------------------------

\* The variables of figure_vars, as the figure record f has them
FigureVarsOf(f) ==
    <<f.data_objs, f.data, f.data_defaults, f.layout_obj, f.layout,
      f.layout_defaults, f.parent, f.orphan_props, f.in_batch_mode,
      f.batch_trace_edits, f.batch_layout_edits, f.change_callbacks>>

\* The callback invocations of the log l, in order
CallbacksOf(l) == SelectSeq(l, LAMBDA e : e.ev = "callback")

\* C28 as stated: the exit of an outermost batch_animate leaves the figure
\* as the exit of a batch_update with the same pending edits would, with the
\* same callback invocations and the same exception, and it sends exactly one
\* message: an animate message with the edit map of each edited trace, the
\* layout edits, the indexes of the edited traces and the animation options
C28_AnimateIsUpdateWithOneMessage ==
    [][(op'.name = "batch_exit" /\ op'.kind = "animate")
          => LET Same(u) ==
                     /\ figure_vars' = FigureVarsOf(u)
                     /\ err' = u.err
                     /\ CallbacksOf(log') = CallbacksOf(u.log)
             IN  /\ Same(AfterBody(BatchUpdateFinally(Fig), op'.raised))
                 /\ Positions(log', {"restyle", "relayout", "update"}) = {}
                 /\ Cardinality(Positions(log', {"animate"})) = 1
                 /\ \A m \in Positions(log', {"animate"}) :
                        /\ log'[m].styles_data
                               = [j \in 1..Len(batch_trace_edits) |->
                                     batch_trace_edits[j].val]
                        /\ log'[m].relayout_data = batch_layout_edits
                        /\ log'[m].trace_indexes
                               = PyList(Keys(batch_trace_edits))
                        /\ log'[m].animation_opts
                               = AnimationOpts(DefaultDuration, DefaultEasing)
       ]_vars

\* C28 on exits whose commit does not raise
C28_WhenCommitReturns ==
    [][(/\ op'.name = "batch_exit"
        /\ op'.kind = "animate"
        /\ err' \in {"none", "BodyException"})
          => LET Same(u) ==
                     /\ figure_vars' = FigureVarsOf(u)
                     /\ err' = u.err
                     /\ CallbacksOf(log') = CallbacksOf(u.log)
             IN  /\ Same(AfterBody(BatchUpdateFinally(Fig), op'.raised))
                 /\ Positions(log', {"restyle", "relayout", "update"}) = {}
                 /\ Cardinality(Positions(log', {"animate"})) = 1
                 /\ \A m \in Positions(log', {"animate"}) :
                        /\ log'[m].styles_data
                               = [j \in 1..Len(batch_trace_edits) |->
                                     batch_trace_edits[j].val]
                        /\ log'[m].relayout_data = batch_layout_edits
                        /\ log'[m].trace_indexes
                               = PyList(Keys(batch_trace_edits))
                        /\ log'[m].animation_opts
                               = AnimationOpts(DefaultDuration, DefaultEasing)
       ]_vars

\* C28 without the count of messages: the exit of an outermost batch_animate
\* leaves the figure as the exit of a batch_update would, with the same
\* callback invocations and the same exception
C28_SameMutation ==
    [][(op'.name = "batch_exit" /\ op'.kind = "animate")
          => LET Same(u) ==
                     /\ figure_vars' = FigureVarsOf(u)
                     /\ err' = u.err
                     /\ CallbacksOf(log') = CallbacksOf(u.log)
             IN  Same(AfterBody(BatchUpdateFinally(Fig), op'.raised))]_vars

\* ------------------------------------------------------------------------
\* Properties of batched writes
\* ------------------------------------------------------------------------

\* The sequences of one or two writes of a colour, another colour or None to
\* the marker colour of the first trace and the title of the layout
WriteSeqs ==
    LET writes == {Write(t.node, t.prop, val) :
                      t \in {[node |-> Node("trace_a", <<marker>>),
                              prop |-> color],
                             [node |-> Node("layout_1", <<>>),
                              prop |-> title]},
                      val \in {Red, Blue, None}}
    IN  {<<w>> : w \in writes} \cup {<<w1, w2>> : w1 \in writes, w2 \in writes}

\* The value of the property in the figure f
ValueIn(f, node, prop) ==
    ValueAt(IF node.root \in TraceObjs
            THEN f.data[_index_is(f.data_objs, node.root) + 1] ELSE f.layout,
            [j \in 1..Len(node.path) |-> Name(node.path[j])] \o <<Name(prop)>>)

\* C29 as stated: on a figure with no open batch, a sequence of writes made
\* in one batch_update leaves the trace and layout state that the same
\* writes leave when made one by one, and every written property has the
\* value of the last write made to it
C29_BatchEqualsSingleWrites ==
    ~in_batch_mode
        => \A writes \in WriteSeqs :
               LET Same(batched, single) ==
                       /\ batched.data = single.data
                       /\ batched.layout = single.layout
                       /\ ValueIn(batched, writes[Len(writes)].node,
                                  writes[Len(writes)].prop)
                              = writes[Len(writes)].val
               IN  Same(InOneBatch(Fig, writes), ApplyWrites(Fig, writes))

\* C29 on sequences in which no write after the first gives a property the
\* value it has in the figure before the batch
C29_NoReturnToOldValue ==
    ~in_batch_mode
        => \A writes \in WriteSeqs :
               (\A n \in 2..Len(writes) :
                    ValueIn(Fig, writes[n].node, writes[n].prop)
                        # writes[n].val)
                   => LET Same(batched, single) ==
                              /\ batched.data = single.data
                              /\ batched.layout = single.layout
                              /\ ValueIn(batched, writes[Len(writes)].node,
                                         writes[Len(writes)].prop)
                                     = writes[Len(writes)].val
                      IN  Same(InOneBatch(Fig, writes),
                               ApplyWrites(Fig, writes))

\* The figure after "with fig.batch_update():" with the write
\* trace.marker.color = val and then the assignment fig.data = new_data as
\* its body
WriteThenAssignData(f, trace, val, new_data) ==
    BatchUpdateFinally(
        data_setter(_set_prop([f EXCEPT !.in_batch_mode = TRUE],
                              Node(trace, <<marker>>), color, val),
                    List(new_data)))

\* The orders of some of the traces of the figure, the trace among them
OrdersWith(trace) ==
    {new_data \in ListsOf({data_objs[j] : j \in 1..Len(data_objs)}) :
        \E j \in 1..Len(new_data) : new_data[j] = trace}

\* C30 as stated: a colour written in a batch to the marker of a trace is the
\* marker colour of that trace after the exit, also when the trace
\* collection is assigned another order, or fewer traces, later in the batch
C30_BatchWriteFollowsTrace ==
    ~in_batch_mode
        => \A trace \in {data_objs[j] : j \in 1..Len(data_objs)} :
               \A new_data \in OrdersWith(trace) :
                   LET Applied(f) ==
                           /\ ~Failed(f)
                           /\ ValueIn(f, Node(trace, <<marker>>), color) = Blue
                   IN  Applied(WriteThenAssignData(Fig, trace, Blue, new_data))

\* C30 on constructed figures and assignments that return and leave the
\* written trace at its index
C30_TraceKeepsIndex ==
    op.name = "init"
        => \A trace \in {data_objs[j] : j \in 1..Len(data_objs)} :
               \A new_data \in OrdersWith(trace) :
                   (/\ _index_is(data_objs, trace) < Len(new_data)
                    /\ new_data[_index_is(data_objs, trace) + 1] = trace
                    /\ ~Failed(data_setter(Fig, List(new_data))))
                       => LET Applied(f) ==
                                  /\ ~Failed(f)
                                  /\ ValueIn(f, Node(trace, <<marker>>), color)
                                         = Blue
                          IN  Applied(WriteThenAssignData(Fig, trace, Blue,
                                                          new_data))

\* ------------------------------------------------------------------------
\* Properties of the values committed by a batch
\* ------------------------------------------------------------------------

\* The key path string of a write to a trace
WritePath(w) ==
    IF w.node.path = <<>> THEN w.prop
    ELSE w.node.path[1] \o Period \o w.prop

\* The writes of the body that give a property another value than it has
EffectiveWrites(f, writes) ==
    {n \in 1..Len(writes) :
        ValueIn(f, writes[n].node, writes[n].prop) # writes[n].val}

\* C31: at the exit of a batch_update whose body wrote properties of traces,
\* the update message holds, for each written property, one value per
\* touched trace in ascending order of the trace indexes: the written value
\* for a trace that wrote it and Undefined for the others; and every
\* property of a trace that the body did not write keeps its value. (A write
\* of the value the property has already is no write.)
C31_UnwrittenPairsKeepValue ==
    [][op'.name = "batch_update"
          => LET writes == op'.writes
                 effective == EffectiveWrites(Fig, writes)
                 IndexOfWrite(n) == _index_is(data_objs, writes[n].node.root)
                 touched == SortedInts({IndexOfWrite(n) : n \in effective})
                 props == SortedStrs({WritePath(writes[n]) : n \in effective})
                 Wrote(n, prop, trace_index) ==
                     /\ WritePath(writes[n]) = prop
                     /\ IndexOfWrite(n) = trace_index
                 Committed(prop, trace_index) ==
                     IF \E n \in effective : Wrote(n, prop, trace_index)
                     THEN writes[CHOOSE n \in effective :
                                     Wrote(n, prop, trace_index)].val
                     ELSE Undefined
                 expected ==
                     [k \in 1..Len(props) |->
                         Item(props[k],
                              List([j \in 1..Len(touched) |->
                                       Committed(props[k], touched[j])]))]
                 after == [data_objs |-> data_objs', data |-> data',
                           layout |-> layout']
                 targets ==
                     {[node |-> Node(o, <<marker>>), prop |-> color] :
                         o \in {data_objs[j] : j \in 1..Len(data_objs)}}
                       \cup {[node |-> Node(o, <<>>), prop |-> uid] :
                                o \in {data_objs[j] : j \in 1..Len(data_objs)}}
             IN  /\ err' = "none"
                 /\ effective # {}
                        => \E k \in 1..Len(log') :
                               /\ Positions(log', {"update"}) = {k}
                               /\ log'[k].restyle_data = expected
                               /\ log'[k].trace_indexes = PyList(touched)
                 /\ \A t \in targets :
                        (\A n \in 1..Len(writes) :
                             writes[n].node # t.node \/ writes[n].prop # t.prop)
                            => ValueIn(after, t.node, t.prop)
                                   = ValueIn(Fig, t.node, t.prop)]_vars

\* A batch in which the first trace wrote its marker colour and the second
\* its uid: each list of the message holds Undefined for the other trace
C31_Witness ==
    /\ op.name = "batch_update"
    /\ Len(op.writes) = 2
    /\ \E k \in 1..Len(log) :
           /\ log[k].ev = "update"
           /\ log[k].trace_indexes = PyList(<<0, 1>>)
           /\ log[k].restyle_data
                  = <<Item(marker \o Period \o color,
                           List(<<Blue, Undefined>>)),
                      Item(uid, List(<<Undefined, Str(<<"z">>)>>))>>

\* ------------------------------------------------------------------------
\* Properties of a batch whose body raises
\* ------------------------------------------------------------------------

\* The pending edits are in the state: every pending value is the value at
\* its path in the trace state at its index, or in the layout state
EditsApplied(trace_edits, layout_edits, new_data, new_layout) ==
    /\ \A j \in 1..Len(trace_edits) :
           /\ trace_edits[j].key < Len(new_data)
           /\ \A k \in 1..Len(trace_edits[j].val) :
                  ValueAt(new_data[trace_edits[j].key + 1],
                          _str_to_dict_path(trace_edits[j].val[k].key))
                      = trace_edits[j].val[k].val
    /\ \A k \in 1..Len(layout_edits) :
           ValueAt(new_layout, _str_to_dict_path(layout_edits[k].key))
               = layout_edits[k].val

\* C32 as stated: when the body of an outermost batch_update raises while
\* edits are pending, the exit applies the pending edits to the trace and
\* layout state, sends exactly one update message, and the exception of the
\* body goes on to the caller
C32_RaisingBodyCommitsEdits ==
    [][(/\ op'.name = "batch_exit"
        /\ op'.kind = "update"
        /\ op'.raised
        /\ (batch_trace_edits # <<>> \/ batch_layout_edits # <<>>))
          => /\ err' = "BodyException"
             /\ Cardinality(Positions(log', {"update"})) = 1
             /\ EditsApplied(batch_trace_edits, batch_layout_edits,
                             data', layout')]_vars

\* C32 when every pending trace index is the index of a trace at the exit
\* and some pending value is not the value in the state already
C32_WhenEditsChangeState ==
    [][(/\ op'.name = "batch_exit"
        /\ op'.kind = "update"
        /\ op'.raised
        /\ \A j \in 1..Len(batch_trace_edits) :
               batch_trace_edits[j].key < Len(data_objs)
        /\ ~EditsApplied(batch_trace_edits, batch_layout_edits, data, layout))
          => /\ err' = "BodyException"
             /\ Cardinality(Positions(log', {"update"})) = 1
             /\ EditsApplied(batch_trace_edits, batch_layout_edits,
                             data', layout')]_vars

\* ------------------------------------------------------------------------
\* Properties of a restyle that fails
\* ------------------------------------------------------------------------

\* The step (key n, position i) of the restyle loops fails: the trace index
\* is out of range, or a value is supplied for a key path that does not
\* resolve through the declared properties
StepFails(request, targets, n_traces, n, i) ==
    \/ targets[i] >= n_traces
    \/ /\ Supplied(request[n].val, i - 1) # Undefined
       /\ ~Resolves(TraceValidators,
                    WithoutTrailingIndex(_str_to_dict_path(request[n].key)))

\* Step (n, i) comes before step (m, j): the loop over the keys is the
\* outer one
StepBefore(n, i, m, j) == n < m \/ (n = m /\ i < j)

\* C33: a plotly_restyle that fails because a trace index is out of range
\* or a key path is no property path of a trace sends no message and
\* invokes no callback, and every value it stored before the failing step
\* is in the trace state after the call; a plotly_update that fails in its
\* restyle step leaves the values of its layout edits in the layout state.
\* Checked on requests of marker colours, uids and one undeclared key, to
\* distinct trace indexes.
C33_FailedRestyleKeepsWrites ==
    [][LET Failure == {"ValueError: Trace index out of range",
                       "ValueError: Invalid property path"}
           Stays(request, targets) ==
               \A n \in 1..Len(request), i \in 1..Len(targets) :
                   (/\ Supplied(request[n].val, i - 1) # Undefined
                    /\ \A m \in 1..n, j \in 1..Len(targets) :
                           (m = n /\ j = i) \/ StepBefore(m, j, n, i)
                               => ~StepFails(request, targets, Len(data),
                                             m, j))
                       => ValueAt(data'[targets[i] + 1],
                                  _str_to_dict_path(request[n].key))
                              = Supplied(request[n].val, i - 1)
       IN  /\ (/\ op'.name = "plotly_restyle"
               /\ err' \in Failure
               /\ \A n \in 1..Len(op'.restyle_data) :
                      op'.restyle_data[n].key
                          \in {marker \o Period \o color, uid,
                               marker \o Period \o title})
              => /\ log' = <<>>
                 /\ Stays(op'.restyle_data,
                          Targeted(Len(data), op'.trace_indexes))
           /\ (/\ op'.name = "plotly_update"
               /\ err' \in Failure
               /\ AllResolve(LayoutValidators, op'.relayout_data))
              => /\ log' = <<>>
                 /\ \A n \in 1..Len(op'.relayout_data) :
                        ValueAt(layout',
                                _str_to_dict_path(op'.relayout_data[n].key))
                            = op'.relayout_data[n].val]_vars

\* A restyle of the marker colour failed at a trace index out of range after
\* it gave the colour to a trace
C33_Witness ==
    /\ op.name = "plotly_restyle"
    /\ err = "ValueError: Trace index out of range"
    /\ log = <<>>
    /\ op.restyle_data = <<Item(marker \o Period \o color, Blue)>>
    /\ ValueAt(op.before.data[1], <<Name(marker), Name(color)>>) # Blue
    /\ ValueAt(data[1], <<Name(marker), Name(color)>>) = Blue

\* A restyle failed at its second key after it stored the value of the first
C33_WitnessSecondKey ==
    /\ op.name = "plotly_restyle"
    /\ err = "ValueError: Invalid property path"
    /\ Len(op.restyle_data) = 2
    /\ ValueAt(op.before.data[1], <<Name(marker), Name(color)>>) # Blue
    /\ ValueAt(data[1], <<Name(marker), Name(color)>>) = Blue

\* An update failed in its restyle step after it stored the title
C33_WitnessUpdate ==
    /\ op.name = "plotly_update"
    /\ err = "ValueError: Invalid property path"
    /\ op.relayout_data = <<Item(title, Red)>>
    /\ op.before.layout # layout
    /\ ValueAt(layout, <<Name(title)>>) = Red

\* ------------------------------------------------------------------------
\* Properties of the three trace lists
\* ------------------------------------------------------------------------

\* The trace objects, the state maps and the defaults are as many, and the
\* state map at each index holds the uid of the trace object at that index
TracesAligned ==
    /\ Parallel
    /\ \A j \in 1..Len(data_objs) :
           ValueAt(data[j], <<Name(uid)>>) = OwnUid(data_objs[j])

\* C34 as stated: after construction and after every operation, the list of
\* trace objects, the list of state maps and the list of defaults have one
\* length, and the uid in the state map at an index is the uid of the trace
\* object at that index
C34_TraceListsAligned == TracesAligned

\* C34 for the operations on figures whose traces have distinct uids and the
\* figure as parent
C34_DistinctUids ==
    [][(/\ TracesAligned
        /\ \A j, m \in 1..Len(data_objs) :
               j # m => OwnUid(data_objs[j]) # OwnUid(data_objs[m])
        /\ \A j \in 1..Len(data_objs) : parent[data_objs[j]] = "fig")
           => TracesAligned']_vars

\* ------------------------------------------------------------------------
\* Properties of a data assignment that removes and reorders
\* ------------------------------------------------------------------------

\* The list holds current traces, each at most once, omits some of them and
\* has the others in another order than the figure
RemovesAndReorders(new_data) ==
    /\ OmitsTraces(new_data)
    /\ \E j, m \in 1..Len(new_data.v) :
           /\ j < m
           /\ _index_is(data_objs, new_data.v[j])
                  > _index_is(data_objs, new_data.v[m])

\* The traces of the figure that the list keeps, in the order of the figure
Remaining(new_data) ==
    SelectSeq(data_objs, LAMBDA o : _index_is(new_data.v, o) >= 0)

\* The delete message is sent before the move message, there is no other,
\* and the move message names the positions 0..k-1 of the k remaining
\* traces and for each its index in the assigned list
DeleteThenMove(l, new_data) ==
    l = <<DeleteMessage(Omitted(new_data)),
          [ev |-> "moveTraces",
           current_inds |-> PyList([j \in 1..Len(Remaining(new_data)) |->
                                       j - 1]),
           new_inds |-> PyList([j \in 1..Len(Remaining(new_data)) |->
                                   _index_is(new_data.v,
                                             Remaining(new_data)[j])])]>>

\* C35 as stated: a data assignment that removes traces and reorders the
\* remaining ones sends the delete message and then the move message, whose
\* indexes are positions after the removal, and leaves at each index the
\* state map and the defaults map of the trace object now at that index
C35_DefaultsFollowTraces ==
    [][(op'.name = "data" /\ RemovesAndReorders(op'.new_data))
          => /\ err' = "none"
             /\ DeleteThenMove(log', op'.new_data)
             /\ data_objs' = op'.new_data.v
             /\ Len(data') = Len(data_objs')
             /\ Len(data_defaults') = Len(data_objs')
             /\ \A j \in 1..Len(data_objs') :
                    /\ data'[j] = data[_index_is(data_objs, data_objs'[j]) + 1]
                    /\ data_defaults'[j]
                           = data_defaults[_index_is(data_objs, data_objs'[j])
                                               + 1]]_vars

\* C35 without the defaults: the messages and the state maps
C35_MessagesAndStates ==
    [][(op'.name = "data" /\ RemovesAndReorders(op'.new_data))
          => /\ err' = "none"
             /\ DeleteThenMove(log', op'.new_data)
             /\ data_objs' = op'.new_data.v
             /\ Len(data') = Len(data_objs')
             /\ Len(data_defaults') = Len(data_objs')
             /\ \A j \in 1..Len(data_objs') :
                    data'[j] = data[_index_is(data_objs, data_objs'[j]) + 1]]_vars

\* ------------------------------------------------------------------------
\* Properties of the callbacks of a restyle of several traces
\* ------------------------------------------------------------------------

\* The call is a plotly_restyle that returned and named several traces of
\* the figure, each once
RestyledSeveral(o, n, e) ==
    /\ o.name = "plotly_restyle"
    /\ e = "none"
    /\ Len(Targeted(n, o.trace_indexes)) >= 2
    /\ NamesNoTraceTwice(o, n)

\* C36 as stated: a restyle of several traces invokes no callback twice on
\* one node, and invokes a callback only on nodes of traces whose state the
\* restyle changed
C36_NoCallbackOnUnchangedTrace ==
    [][RestyledSeveral(op', Len(data), err')
          => \A p \in Positions(log', {"callback"}) :
                 /\ Invocations(log', log'[p].node, log'[p].callback) = {p}
                 /\ data'[_index_is(data_objs, log'[p].node.root) + 1]
                        # data[_index_is(data_objs, log'[p].node.root) + 1]
       ]_vars

\* C36 without the unchanged traces: no callback is invoked twice on one
\* node, and the callbacks invoked are on nodes of targeted traces and watch
\* a key of the request
C36_OncePerNode ==
    [][RestyledSeveral(op', Len(data), err')
          => \A p \in Positions(log', {"callback"}) :
                 /\ Invocations(log', log'[p].node, log'[p].callback) = {p}
                 /\ \E i \in 1..Len(Targeted(Len(data), op'.trace_indexes)) :
                        Targeted(Len(data), op'.trace_indexes)[i]
                            = _index_is(data_objs, log'[p].node.root)
       ]_vars

\* ------------------------------------------------------------------------
\* Assignment of a compound property and update(dict): nodes as objects with
\* their own identity, parent link and orphan dict
\* ------------------------------------------------------------------------

line == <<"l", "i", "n", "e">>

\* Marker objects (a colour and one compound property, line) and line
\* objects (a colour); NewLines are the line objects that the validator
\* creates, in this order
MarkerObjs == {"marker_1", "marker_2"}

NewLines == <<"line_3", "line_4", "line_5", "line_6">>

LineObjs == {"line_1", "line_2"} \cup {NewLines[j] : j \in 1..Len(NewLines)}

HeapObjs == {"trace_a"} \cup MarkerObjs \cup LineObjs

\* How many assignments and updates are made
MaxCalls == 2

\* obj.plotly_name
NameOf(o) ==
    IF o \in MarkerObjs THEN marker
    ELSE IF o \in LineObjs THEN line
    ELSE <<"s", "c", "a", "t", "t", "e", "r">>

\* obj._validators
NodeValidators(o) ==
    IF o \in MarkerObjs
    THEN (color :> SimpleValidator)
             @@ (line :> CompoundValidator((color :> SimpleValidator)))
    ELSE IF o \in LineObjs THEN (color :> SimpleValidator)
    ELSE TraceValidators

RECURSIVE NodeProps(_, _)
\* BasePlotlyType._props with _get_child_props on the objects of a heap h:
\* the orphan dict of an object without parent, the state dict that the
\* figure keeps for its trace, otherwise the slot under the object's name in
\* the dict of its parent (None while there is none)
NodeProps(h, o) ==
    LET Slot(pp, key) ==
            IF pp = None THEN None
            ELSE IF key \in DOMAIN pp.v THEN pp.v[key]
            ELSE None
    IN  IF h._parent[o] = "none" THEN h._orphan_props[o]
        ELSE IF h._parent[o] = "fig" THEN h._data
        ELSE Slot(NodeProps(h, h._parent[o]), Name(NameOf(o)))

RECURSIVE WithNodeProps(_, _, _)
\* The heap after self._props has been given the content d (the dict of an
\* initialized object is a part of the dict of its root)
WithNodeProps(h, o, d) ==
    IF h._parent[o] = "none" THEN [h EXCEPT !._orphan_props[o] = d]
    ELSE IF h._parent[o] = "fig" THEN [h EXCEPT !._data = d]
    ELSE WithNodeProps(h, h._parent[o],
                       DictSet(NodeProps(h, h._parent[o]), Name(NameOf(o)), d))

RECURSIVE InitNodeProps(_, _)
\* BasePlotlyType._init_props with _init_child_props on the objects of a heap
InitNodeProps(h, o) ==
    LET InitChild(h1, p) ==
            IF Name(NameOf(o)) \notin DOMAIN NodeProps(h1, p).v
            THEN WithNodeProps(h1, p, DictSet(NodeProps(h1, p),
                                              Name(NameOf(o)), EmptyDict))
            ELSE h1
    IN  IF NodeProps(h, o) # None THEN h
        ELSE InitChild(InitNodeProps(h, h._parent[o]), h._parent[o])

RECURSIVE NodeFigure(_, _)
\* BasePlotlyType.figure: whether the parent chain ends at the figure
NodeFigure(h, o) ==
    IF h._parent[o] = "none" THEN FALSE
    ELSE IF h._parent[o] = "fig" THEN TRUE
    ELSE NodeFigure(h, h._parent[o])

\* BasePlotlyType._in_batch_mode: self.parent and self.parent._in_batch_mode
NodeInBatchMode(h, o) == NodeFigure(h, o) /\ h._in_batch_mode

RECURSIVE NodeRestyleChild(_, _, _, _)
\* _prop_set_child up the parent chain ('name.' is put before the path) and
\* BaseFigure._restyle_child at the figure: in batch mode the edit is kept
\* for the trace, else the restyle message is sent; an object whose chain ends
\* without figure tells nobody
NodeRestyleChild(h, o, prop_path_str, val) ==
    IF h._parent[o] = "none" THEN h
    ELSE IF h._parent[o] = "fig" THEN
        IF h._in_batch_mode
        THEN [h EXCEPT !._batch_trace_edits = Put(@, prop_path_str, val)]
        ELSE [h EXCEPT !.msgs =
                 Append(@, [ev |-> "restyle",
                            data |-> <<Item(prop_path_str, val)>>])]
    ELSE NodeRestyleChild(h, h._parent[o],
                          NameOf(o) \o Period \o prop_path_str, val)

\* self._send_prop_set(prop, val); sent holds the calls
NodeSendPropSet(h, self, prop, val) ==
    NodeRestyleChild([h EXCEPT !.sent =
                         Append(@, [node |-> self, prop |-> prop,
                                    val |-> val])],
                     self, prop, val)

\* BasePlotlyType._set_prop on an object of the heap
NodeSetProp(h, self, prop, val) ==
    LET Delete(p) ==
            IF p # None /\ p # EmptyDict /\ Name(prop) \in DOMAIN p.v
            THEN NodeSendPropSet(
                     IF ~NodeInBatchMode(h, self)
                     THEN WithNodeProps(h, self, DictPop(p, Name(prop)))
                     ELSE h,
                     self, prop, val)
            ELSE h
        Assign(h1, p) ==
            IF Name(prop) \notin DOMAIN p.v
               \/ ~_vals_equal(p.v[Name(prop)], val)
            THEN NodeSendPropSet(
                     IF ~NodeInBatchMode(h1, self)
                     THEN WithNodeProps(h1, self, DictSet(p, Name(prop), val))
                     ELSE h1,
                     self, prop, val)
            ELSE h1
        Initialized(h1) == Assign(h1, NodeProps(h1, self))
    IN  IF val = Undefined THEN h
        ELSE IF val = None THEN Delete(NodeProps(h, self))
        ELSE Initialized(InitNodeProps(h, self))

\* The object that the next coercion creates
Created(h) == NewLines[h.created + 1]

\* CompoundValidator.validate_coerce of a dict: a new object of the data
\* class, without parent, that holds the dict as its orphan dict
validate_coerce(h, v) ==
    [h EXCEPT !._orphan_props[Created(h)] = v,
              !.created = @ + 1]

\* BasePlotlyType._set_compound_prop(self, prop, val) for a dict val or
\* Undefined; err is the exception that ended the call
_set_compound_prop(h, self, prop, v) ==
    LET val == Created(h)
        curr_val == h._compound_props[self]
        curr_dict_val ==
            IF curr_val # "none" THEN NodeProps(h, curr_val) ELSE None
        new_dict_val == v
        Pop(h1, p) ==
            IF p = None THEN [h1 EXCEPT !.err = "TypeError"]
            ELSE IF Name(prop) \in DOMAIN p.v
            THEN WithNodeProps(h1, self, DictPop(p, Name(prop)))
            ELSE h1
        Store(h1) ==
            WithNodeProps(h1, self,
                          DictSet(NodeProps(h1, self), Name(prop),
                                  new_dict_val))
        Written(h1) ==
            IF NodeInBatchMode(h1, self) THEN h1
            ELSE IF new_dict_val = EmptyDict THEN Pop(h1, NodeProps(h1, self))
            ELSE Store(InitNodeProps(h1, self))
        Sent(h1) ==
            IF h1.err # "none" THEN h1
            ELSE IF ~_vals_equal(curr_dict_val, new_dict_val)
            THEN NodeSendPropSet(h1, self, prop, new_dict_val)
            ELSE h1
        Unparented(h1) ==
            IF curr_val = "none" THEN h1
            ELSE [h1 EXCEPT !._orphan_props[curr_val] =
                                IF curr_dict_val # None
                                THEN DictUpdate(@, curr_dict_val) ELSE @,
                            !._parent[curr_val] = "none"]
        Reparented(h1) ==
            IF h1.err # "none" THEN h1
            ELSE [Unparented([h1 EXCEPT !._parent[val] = self,
                                        !._orphan_props[val] = EmptyDict])
                     EXCEPT !._compound_props[self] = val]
    IN  IF v = Undefined THEN h
        ELSE Reparented(Sent(Written(validate_coerce(h, v))))

\* The dict of the update dict of a line
DictOf(update_obj) ==
    Dict([key \in {Name(update_obj.v[j].key) : j \in 1..Len(update_obj.v)} |->
             Get(update_obj.v, key.s)])

RECURSIVE NodePerformUpdateAssigning(_, _, _)
\* _perform_update with plotly_obj[key] = val for the compound keys too
NodePerformUpdateAssigning(h, plotly_obj, update_obj) ==
    LET key == update_obj.v[1].key
        val == update_obj.v[1].val
    IN  IF h.err # "none" \/ update_obj = None \/ update_obj.v = <<>> THEN h
        ELSE IF \E j \in 1..Len(update_obj.v) :
                    update_obj.v[j].key \notin DOMAIN NodeValidators(plotly_obj)
        THEN [h EXCEPT !.err = "ValueError: Invalid property specified"]
        ELSE NodePerformUpdateAssigning(
                 IF NodeValidators(plotly_obj)[key].kind = "compound"
                 THEN IF plotly_obj \in MarkerObjs /\ val # None
                      THEN _set_compound_prop(h, plotly_obj, key, DictOf(val))
                      ELSE NodePerformUpdateAssigning(
                               h, h._compound_props[plotly_obj], val)
                 ELSE NodeSetProp(h, plotly_obj, key, val),
                 plotly_obj, UpdateDict(Tail(update_obj.v)))

RECURSIVE NodePerformUpdate(_, _, _)
\* BaseFigure._perform_update(plotly_obj, update_obj) for an object of the
\* heap and a dict: plotly_obj[key] of a compound property is the object in
\* the slot
NodePerformUpdate(h, plotly_obj, update_obj) ==
    LET key == update_obj.v[1].key
        val == update_obj.v[1].val
    IN  IF h.err # "none" \/ update_obj = None \/ update_obj.v = <<>> THEN h
        ELSE IF \E j \in 1..Len(update_obj.v) :
                    update_obj.v[j].key \notin DOMAIN NodeValidators(plotly_obj)
        THEN [h EXCEPT !.err = "ValueError: Invalid property specified"]
        ELSE NodePerformUpdate(
                 IF NodeValidators(plotly_obj)[key].kind = "compound"
                 THEN NodePerformUpdate(h, h._compound_props[plotly_obj], val)
                 ELSE NodeSetProp(h, plotly_obj, key, val),
                 plotly_obj, UpdateDict(Tail(update_obj.v)))

RECURSIVE NodeRestyle(_, _, _)
\* _perform_plotly_restyle on the one trace, for the keys that are left:
\* the state dict of the trace and the keys that changed it
NodeRestyle(d, edits, props) ==
    LET Rest(r) ==
            LET rest == NodeRestyle(r.val, edits, Tail(props))
            IN  [d |-> rest.d,
                 changes |-> IF r.changed THEN <<props[1]>> \o rest.changes
                             ELSE rest.changes]
    IN  IF props = <<>> THEN [d |-> d, changes |-> <<>>]
        ELSE Rest(_set_in(d, props[1], Get(edits, props[1])))

\* The exit of BaseFigure.batch_update with the edits of the one trace:
\* _build_update_params_from_batch sorts the paths, plotly_update applies them
\* to the state dict of the trace and sends an update message when some
\* changed it
NodeBatchExit(h) ==
    LET Committed(r) ==
            [h EXCEPT !._in_batch_mode = FALSE,
                      !._data = r.d,
                      !._batch_trace_edits = <<>>,
                      !.msgs = IF r.changes # <<>>
                               THEN Append(@, [ev |-> "update",
                                               data |-> r.changes])
                               ELSE @]
    IN  Committed(NodeRestyle(h._data, h._batch_trace_edits,
                              SortedStrs(KeySet(h._batch_trace_edits))))

\* BasePlotlyType.update(self, dict1): in a batch of its own when the object
\* belongs to a figure that is not in batch mode
NodeUpdate(h, self, dict1) ==
    IF NodeFigure(h, self) /\ ~h._in_batch_mode
    THEN NodeBatchExit(NodePerformUpdate([h EXCEPT !._in_batch_mode = TRUE],
                                         self, dict1))
    ELSE NodePerformUpdate(h, self, dict1)

\* The states of a scatter trace and of a marker without parent
TraceStates ==
    {EmptyDict,
     Dict((Name(marker) :> Dict((Name(color) :> Red)))),
     Dict((Name(marker) :> Dict((Name(line) :> Dict((Name(color) :> Red)))))),
     Dict((Name(marker) :>
              Dict((Name(color) :> Red)
                       @@ (Name(line) :> Dict((Name(color) :> Red))))))}

MarkerStates ==
    {EmptyDict, Dict((Name(line) :> Dict((Name(color) :> Blue))))}

\* A scatter trace, alone or in a figure (in batch mode or not), with
\* marker_1 in its marker slot and line_1 in the line slot of marker_1.
\* marker_2 has no parent and holds line_2
InitCompound ==
    /\ Is(EmptyFigure)
    /\ \E trace_parent \in {"none", "fig"}, batch \in BOOLEAN,
          trace_state \in TraceStates, marker_state \in MarkerStates :
           /\ batch => trace_parent = "fig"
           /\ ctx = [_parent |->
                        [o \in HeapObjs |->
                            IF o = "trace_a" THEN trace_parent
                            ELSE IF o = "marker_1" THEN "trace_a"
                            ELSE IF o = "line_1" THEN "marker_1"
                            ELSE IF o = "line_2" THEN "marker_2"
                            ELSE "none"],
                     _orphan_props |->
                        [o \in HeapObjs |->
                            IF o = "trace_a" /\ trace_parent = "none"
                            THEN trace_state
                            ELSE IF o = "marker_2" THEN marker_state
                            ELSE EmptyDict],
                     _compound_props |->
                        [o \in HeapObjs |->
                            IF o = "trace_a" THEN "marker_1"
                            ELSE IF o = "marker_1" THEN "line_1"
                            ELSE IF o = "marker_2" THEN "line_2"
                            ELSE "none"],
                     _data |-> IF trace_parent = "fig" THEN trace_state
                               ELSE None,
                     _in_batch_mode |-> batch,
                     _batch_trace_edits |-> <<>>,
                     created |-> 0,
                     calls |-> 0,
                     sent |-> <<>>,
                     msgs |-> <<>>,
                     err |-> "none"]
    /\ op = [name |-> "init"]

\* The heap at the start of a call: the exception of the call before has
\* been handled by the caller
AtCall(h) ==
    [h EXCEPT !.err = "none", !.sent = <<>>, !.msgs = <<>>, !.calls = @ + 1]

\* self[prop] = v on a marker object: BasePlotlyType.__setitem__ hands a
\* compound property to _set_compound_prop
SetCompoundProp(self, v) ==
    /\ ctx.calls < MaxCalls
    /\ ctx' = _set_compound_prop(AtCall(ctx), self, line, v)
    /\ op' = [name |-> "_set_compound_prop", self |-> self, v |-> v,
              val |-> Created(ctx)]
    /\ UNCHANGED <<data_objs, data, data_defaults, layout_obj, layout,
                   layout_defaults, parent, orphan_props, in_batch_mode,
                   batch_trace_edits, batch_layout_edits, change_callbacks,
                   log, err>>

\* self.update(dict1) on the trace or on a marker object
UpdateNode(self, dict1) ==
    /\ ctx.calls < MaxCalls
    /\ ctx' = NodeUpdate(AtCall(ctx), self, dict1)
    /\ op' = [name |-> "update", self |-> self, dict1 |-> dict1,
              of |-> "node"]
    /\ UNCHANGED <<data_objs, data, data_defaults, layout_obj, layout,
                   layout_defaults, parent, orphan_props, in_batch_mode,
                   batch_trace_edits, batch_layout_edits, change_callbacks,
                   log, err>>

\* BaseFigure.update(data=[dict1]) of the figure of the one trace:
\* _perform_update pairs the traces with the dicts of the list
FigureUpdate(h, dict1) ==
    IF ~h._in_batch_mode
    THEN NodeBatchExit(NodePerformUpdate([h EXCEPT !._in_batch_mode = TRUE],
                                         "trace_a", dict1))
    ELSE NodePerformUpdate(h, "trace_a", dict1)

\* fig.update(data=[dict1])
UpdateFigure(dict1) ==
    /\ ctx.calls < MaxCalls
    /\ ctx._parent["trace_a"] = "fig"
    /\ ctx' = FigureUpdate(AtCall(ctx), dict1)
    /\ op' = [name |-> "update", self |-> "trace_a", dict1 |-> dict1,
              of |-> "fig"]
    /\ UNCHANGED <<data_objs, data, data_defaults, layout_obj, layout,
                   layout_defaults, parent, orphan_props, in_batch_mode,
                   batch_trace_edits, batch_layout_edits, change_callbacks,
                   log, err>>

\* The dicts given to update on a marker object and on the trace
MarkerUpdates ==
    {UpdateDict(items) :
        items \in {<<Item(color, Blue)>>,
                   <<Item(color, None)>>,
                   <<Item(line, UpdateDict(<<Item(color, Blue)>>))>>,
                   <<Item(line, UpdateDict(<<Item(color, Red)>>)),
                     Item(color, Red)>>}}

TraceUpdates ==
    {UpdateDict(<<Item(uid, Str(<<"z">>))>>)}
        \cup {UpdateDict(<<Item(marker, u)>>) : u \in MarkerUpdates}

NextCompound ==
    \/ \E self \in MarkerObjs,
          v \in {Undefined, EmptyDict, Dict((Name(color) :> Red)),
                 Dict((Name(color) :> Blue))} :
           SetCompoundProp(self, v)
    \/ \E self \in MarkerObjs, dict1 \in MarkerUpdates :
           UpdateNode(self, dict1)
    \/ \E dict1 \in TraceUpdates : UpdateNode("trace_a", dict1)
    \/ \E dict1 \in TraceUpdates : UpdateFigure(dict1)

SpecCompound == InitCompound /\ [][NextCompound]_vars

\* ------------------------------------------------------------------------
\* Properties of the assignment of a compound property
\* ------------------------------------------------------------------------

\* The values that an object with the backing dict p has (to_plotly_json)
EffectiveValues(p) == IF p = None THEN EmptyDict ELSE p

\* self[prop] = v took the previous occupant out of the slot and put the
\* created object in
Reparents(h, h1, self, val, v) ==
    LET curr_val == h._compound_props[self]
    IN  /\ h1._compound_props[self] = val
        /\ h1._parent[val] = self
        /\ h1._orphan_props[val] = EmptyDict
        /\ EffectiveValues(NodeProps(h1, val)) = v
        /\ curr_val # "none" =>
               /\ h1._parent[curr_val] = "none"
               /\ h1._orphan_props[curr_val] =
                      EffectiveValues(NodeProps(h, curr_val))

\* C37: the assignment of a compound property on a node outside a batch
\* leaves the new node in the slot, parented to the assigning node, with an
\* empty orphan dict and its values in the backing slot of the parent; it
\* leaves the previous occupant without parent and with an orphan dict equal
\* to the values it had before; a prop-set notification is sent only when the
\* old and the new serialized values differ
C37_AssignmentReparents ==
    [][(/\ op'.name = "_set_compound_prop"
        /\ op'.v # Undefined
        /\ ~NodeInBatchMode(ctx, op'.self))
       => /\ Reparents(ctx, ctx', op'.self, op'.val, op'.v)
          /\ ctx'.sent # <<>> =>
                 EffectiveValues(NodeProps(ctx,
                                           ctx._compound_props[op'.self]))
                     # op'.v]_vars

\* An assignment outside a batch that returns reparents as C37 says, and it
\* notifies exactly when the backing dict of the previous occupant (None
\* while there is none) and the dict of the new node differ
C37_WhenTheCallReturns ==
    [][(/\ op'.name = "_set_compound_prop"
        /\ op'.v # Undefined
        /\ ~NodeInBatchMode(ctx, op'.self)
        /\ ctx'.err = "none")
       => /\ Reparents(ctx, ctx', op'.self, op'.val, op'.v)
          /\ ctx'.sent # <<>> <=>
                 NodeProps(ctx, ctx._compound_props[op'.self]) # op'.v]_vars

\* The assignment raises exactly when the new node is empty and the
\* assigning node has a parent but no backing dict yet
C37_RaisesOnUninitializedNode ==
    [][(/\ op'.name = "_set_compound_prop"
        /\ op'.v # Undefined)
       => (ctx'.err = "TypeError" <=>
               /\ ~NodeInBatchMode(ctx, op'.self)
               /\ op'.v = EmptyDict
               /\ NodeProps(ctx, op'.self) = None)]_vars

\* ------------------------------------------------------------------------
\* Properties of _set_in on absent containers
\* ------------------------------------------------------------------------

\* _set_in was called with a value that is neither None nor Undefined and a
\* path of several elements whose first container is not in the dict
SetInCreates(o, d) ==
    /\ o.name = "_set_in"
    /\ o.v \notin {None, Undefined}
    /\ Len(_str_to_dict_path(o.key_path_str)) > 1
    /\ _str_to_dict_path(o.key_path_str)[1] \notin DOMAIN d.v

\* C38: _set_in with a concrete value and a path whose intermediate
\* containers are absent creates them and completes with the value stored at
\* the path, also when a name follows an index into a created list
C38_SetInCreatesContainers ==
    [][SetInCreates(op', layout)
       => /\ err' = "none"
          /\ ValueAt(layout', _str_to_dict_path(op'.key_path_str)) = op'.v]_vars

\* The same for the paths in which only names come before the last element:
\* the call completes, the value is at the path and the created containers are
\* dicts, or a list padded with None when the last element is an index
C38_WhenNamesLeadToTheLast ==
    [][(/\ SetInCreates(op', layout)
        /\ \A j \in 1..(Len(_str_to_dict_path(op'.key_path_str)) - 1) :
               IsName(_str_to_dict_path(op'.key_path_str)[j]))
       => LET key_path == _str_to_dict_path(op'.key_path_str)
              last_key == key_path[Len(key_path)]
              val_parent ==
                  ValueAt(layout', SubSeq(key_path, 1, Len(key_path) - 1))
          IN  /\ err' = "none"
              /\ ValueAt(layout', key_path) = op'.v
              /\ IF IsIdx(last_key)
                 THEN /\ IsList(val_parent)
                      /\ Len(val_parent.v) = last_key.i + 1
                      /\ \A j \in 1..last_key.i : val_parent.v[j] = None
                 ELSE IsDict(val_parent)]_vars

\* A name after an index into a created list: the list is padded with None
\* up to the index and the call raises ValueError without storing the value
C38_NameAfterIndexRaises ==
    [][(/\ SetInCreates(op', layout)
        /\ Len(_str_to_dict_path(op'.key_path_str)) = 3
        /\ IsIdx(_str_to_dict_path(op'.key_path_str)[2]))
       => LET key_path == _str_to_dict_path(op'.key_path_str)
          IN  /\ err' = "ValueError"
              /\ ValueAt(layout', <<key_path[1]>>) =
                     List(Nones(key_path[2].i + 1))]_vars

\* ------------------------------------------------------------------------
\* Properties of update(dict) on a node
\* ------------------------------------------------------------------------

\* The value of a simple property of an object, None when it has none
ScalarValue(h, o, p) ==
    IF NodeProps(h, o) = None THEN None
    ELSE IF Name(p) \notin DOMAIN NodeProps(h, o).v THEN None
    ELSE NodeProps(h, o).v[Name(p)]

SimpleProps(o) ==
    {p \in DOMAIN NodeValidators(o) : NodeValidators(o)[p].kind = "simple"}

RECURSIVE Mentions(_, _, _, _, _)
\* The dict given for the node names the simple property p of the object o,
\* at the node itself or below it
Mentions(h, node, update_obj, o, p) ==
    /\ update_obj # None
    /\ \E j \in 1..Len(update_obj.v) :
           /\ update_obj.v[j].key \in DOMAIN NodeValidators(node)
           /\ IF NodeValidators(node)[update_obj.v[j].key].kind = "simple"
              THEN node = o /\ update_obj.v[j].key = p
              ELSE Mentions(h, h._compound_props[node], update_obj.v[j].val,
                            o, p)

PlanStrs ==
    {title, xaxis, xaxis \o Period \o range,
     xaxis \o Period \o Bracket(range, "0"),
     marker \o Period \o color,
     marker \o Period \o line \o Period \o color}

\* The longest list of key path strings
MaxPlanLen == 3

PlanLists ==
    UNION {[1..n -> PlanStrs] : n \in 0..MaxPlanLen}

InitPlan ==
    /\ Is(EmptyFigure)
    /\ ctx = <<>>
    /\ op = [name |-> "init"]

\* BaseFigure._build_dispatch_plan(key_path_strs)
BuildDispatchPlan(key_path_strs) ==
    /\ op.name = "init"
    /\ op' = [name |-> "_build_dispatch_plan",
              key_path_strs |-> key_path_strs,
              dispatch_plan |-> _build_dispatch_plan(key_path_strs)]
    /\ UNCHANGED <<figure_vars, ctx, log, err>>

NextPlan == \E key_path_strs \in PlanLists : BuildDispatchPlan(key_path_strs)

SpecPlan == InitPlan /\ [][NextPlan]_vars

\* The paths that the key path strings of a list stand for
GivenPaths(key_path_strs) ==
    {_str_to_dict_path(key_path_strs[j]) : j \in 1..Len(key_path_strs)}

\* The prefix of length n of a path
Prefix(p, n) == SubSeq(p, 1, n)

\* C40: the keys of the dispatch plan are exactly the proper prefixes of the
\* given paths, the empty prefix included, each once; the value for a prefix
\* q is exactly the set of the non-empty paths s such that q followed by s is
\* a prefix of, or equal to, a given path that starts with q
C40_PlanIsPrefixesAndSuffixes ==
    op.name = "_build_dispatch_plan"
        => LET paths == GivenPaths(op.key_path_strs)
           IN  /\ KeySet(op.dispatch_plan) =
                      UNION {{Prefix(p, n) : n \in 0..(Len(p) - 1)} :
                                p \in paths}
               /\ Cardinality(KeySet(op.dispatch_plan)) = Len(op.dispatch_plan)
               /\ \A q \in KeySet(op.dispatch_plan) :
                      Get(op.dispatch_plan, q) =
                          UNION {{SubSeq(p, Len(q) + 1, m) :
                                     m \in (Len(q) + 1)..Len(p)} :
                                    p \in {p \in paths :
                                              /\ Len(p) >= Len(q)
                                              /\ Prefix(p, Len(q)) = q}}

\* The plan of ['marker.line.color', 'marker.color']: under ('marker',) are
\* ('line',), ('line', 'color') and ('color',)
C40_Witness ==
    /\ op.name = "_build_dispatch_plan"
    /\ op.key_path_strs = <<marker \o Period \o line \o Period \o color,
                            marker \o Period \o color>>
    /\ Keys(op.dispatch_plan) =
           <<<<>>, <<Name(marker)>>, <<Name(marker), Name(line)>>>>
    /\ Get(op.dispatch_plan, <<Name(marker)>>) =
           {<<Name(line)>>, <<Name(line), Name(color)>>, <<Name(color)>>}

====
